---- MODULE Spec2Model ----
(***************************************************************************)
(* Model of the vehicle-damage analyze route (src/app/api/analyze/route.ts,*)
(* the current handler at lines 406-785): the item normalizer, the         *)
(* heuristic estimator, the confidence aggregator and the decision engine, *)
(* driven by the POST handler.                                             *)
(*                                                                         *)
(* Numbers.  JavaScript numbers are modelled exactly as integers counting  *)
(* hundredths: severity 2.5 is 250, confidence 0.75 is 75, 2.1 labor hours *)
(* is 210.  Dollar amounts that the code rounds with Math.round (cost_low, *)
(* cost_high) and the dollar thresholds are integers counting dollars.     *)
(* Intermediate products are kept exact and rounded where the code rounds. *)
(*                                                                         *)
(* JSON values.  A value of unknown shape is a record [t, n, s, a]: t is   *)
(* the JavaScript type tag, n the number (hundredths) or the boolean       *)
(* (0/1), s the string, a the array elements.  A candidate observation is  *)
(* a record [t, zone, part, ...] whose t is the tag of the element itself  *)
(* and whose other fields are the values read from its properties          *)
(* (undefined for every property of an element that is not a plain object).*)
(***************************************************************************)
EXTENDS Integers, Sequences, FiniteSets, TLC

VARIABLES env, pc, form, yoloSeeds, completion, payload, response, prior,
          roboflow, boxes, page, submit, calls

\* the variables of the detect route and of the page
detectVars == <<roboflow, boxes>>
pageVars   == <<page, submit, calls>>

vars == <<env, pc, form, yoloSeeds, completion, payload, response, prior,
          detectVars, pageVars>>

(***************************************************************************)
(* Bounds of the model.                                                    *)
(***************************************************************************)
MaxItems == 2
MaxSeeds == 1
MaxSummaryItems == 10
MaxPredictions == 1

(***************************************************************************)
(* JSON values of unknown shape.                                           *)
(***************************************************************************)
Undef   == [t |-> "undefined", n |-> 0, s |-> "", a |-> <<>>]
Null    == [t |-> "null", n |-> 0, s |-> "", a |-> <<>>]
Num(x)  == [t |-> "number", n |-> x, s |-> "", a |-> <<>>]
Str(x)  == [t |-> "string", n |-> 0, s |-> x, a |-> <<>>]
Bool(b) == [t |-> "boolean", n |-> IF b THEN 1 ELSE 0, s |-> "", a |-> <<>>]
Arr(xs) == [t |-> "array", n |-> 0, s |-> "", a |-> xs]
\* a parsed JSON object; s names an own key that shadows a method of
\* Object.prototype with a value that is not a function ("" if none)
Obj(k)  == [t |-> "object", n |-> 0, s |-> k, a |-> <<>>]

SeqMap(f(_), xs) == [i \in 1..Len(xs) |-> f(xs[i])]

Min(a, b) == IF a <= b THEN a ELSE b
Max(a, b) == IF a >= b THEN a ELSE b

\* Math.round of the rational p/q (q > 0): nearest integer, ties towards +infinity.
MathRound(p, q) == (2 * p + q) \div (2 * q)

(***************************************************************************)
(* The enumerations of app/types.ts.                                       *)
(***************************************************************************)
Zone == {"front", "front-left", "left", "rear-left", "rear",
         "rear-right", "right", "front-right", "roof", "unknown"}

Part == {"bumper", "fender", "door", "hood", "trunk",
         "quarter-panel", "headlight", "taillight", "grille",
         "mirror", "windshield", "wheel", "unknown"}

DamageType == {"dent", "scratch", "crack", "paint-chips",
               "broken", "bent", "missing", "glass-crack", "unknown"}

(***************************************************************************)
(* Guards.                                                                 *)
(***************************************************************************)
\* typeof v === "object" && v !== null  (arrays are objects too)
isRecord(v) == v.t \in {"object", "array"}

isUnitNumber(v) == v.t = "number" /\ v.n >= 0 /\ v.n <= 100

\* variant: any four numbers make a box
isBBoxRel_anyNumbers(v) ==
    /\ v.t = "array"
    /\ Len(v.a) = 4
    /\ \A i \in 1..Len(v.a) : v.a[i].t = "number"

isBBoxRel(v) ==
    /\ v.t = "array"
    /\ Len(v.a) = 4
    /\ \A i \in 1..Len(v.a) : isUnitNumber(v.a[i])

isPolygonRel(v) ==
    /\ v.t = "array"
    /\ Len(v.a) >= 3
    /\ Len(v.a) <= 12
    /\ \A i \in 1..Len(v.a) :
          /\ v.a[i].t = "array"
          /\ Len(v.a[i].a) = 2
          /\ isUnitNumber(v.a[i].a[1])
          /\ isUnitNumber(v.a[i].a[2])

\* v is one element of the parsed "yolo" form field: [t, confidence, bbox_rel]
isYoloSeed(v) ==
    /\ isRecord(v)
    /\ v.confidence.t = "number"
    /\ isBBoxRel(v.bbox_rel)

(***************************************************************************)
(* Fallback heuristics.                                                    *)
(***************************************************************************)
\* base hours in hundredths
baseHours(part) ==
    IF part = "bumper" THEN 120
    ELSE IF part = "door" THEN 150
    ELSE IF part = "fender" THEN 120
    ELSE IF part = "hood" THEN 140
    ELSE IF part = "quarter-panel" THEN 200
    ELSE IF part = "headlight" \/ part = "taillight" THEN 60
    ELSE IF part = "grille" THEN 80
    ELSE IF part = "mirror" THEN 50
    ELSE IF part = "windshield" THEN 120
    ELSE IF part = "wheel" THEN 70
    ELSE IF part = "trunk" THEN 140
    ELSE 100

\* severity multiplier in hundredths; sev is in hundredths
sevMult(sev) ==
    IF sev <= 100 THEN 50
    ELSE IF sev = 200 THEN 80
    ELSE IF sev = 300 THEN 100
    ELSE IF sev = 400 THEN 140
    ELSE 180

\* +(base * sevMult).toFixed(2): the product counts ten-thousandths, the
\* result is rounded to hundredths.
hoursFor(part, sev) == MathRound(baseHours(part) * sevMult(sev), 100)

\* String.prototype.includes over the strings of the model
SubstringsOf(s) ==
    CASE s = "scratch"       -> {"scratch"}
      [] s = "deep-scratch"  -> {"scratch"}
      [] s = "paint-chips"   -> {"paint"}
      [] s = "repaint"       -> {"paint"}
      [] OTHER               -> {}

includes(s, sub) == sub \in SubstringsOf(s)

\* variant: the glass and lamp parts are not set apart
needsPaintFor_noGlass(type, sev, part) ==
    IF includes(type, "scratch") \/ includes(type, "paint") THEN TRUE
    ELSE sev >= 200

needsPaintFor(type, sev, part) ==
    IF part \in {"windshield", "headlight", "taillight", "mirror"} THEN FALSE
    ELSE IF includes(type, "scratch") \/ includes(type, "paint") THEN TRUE
    ELSE sev >= 200

(***************************************************************************)
(* Item normalizer: the callback of itemsIn.map in POST.                   *)
(***************************************************************************)
NoGeom == <<>>

\* {} : every property reads as undefined
EmptyObject ==
    [t |-> "object", zone |-> Undef, part |-> Undef, damage_type |-> Undef,
     severity |-> Undef, confidence |-> Undef, est_labor_hours |-> Undef,
     needs_paint |-> Undef, likely_parts |-> Undef, bbox_rel |-> Undef,
     polygon_rel |-> Undef]

\* String(x) throws a TypeError when x is an object whose toString is not
\* callable: OrdinaryToPrimitive then falls to Object.prototype.valueOf,
\* which returns the object itself
StringThrows(v) == v.t = "object" /\ v.s = "toString"

\* String(x) for the elements of likely_parts (strings, null, booleans and
\* objects in this model)
String(v) ==
    CASE v.t = "string"    -> v.s
      [] v.t = "null"      -> "null"
      [] v.t = "undefined" -> "undefined"
      [] v.t = "boolean"   -> IF v.n = 1 THEN "true" ELSE "false"
      [] v.t = "object"    -> "[object Object]"

normSeverity(d) ==
    IF d.severity.t = "number" /\ d.severity.n >= 100 /\ d.severity.n <= 500
    THEN d.severity.n ELSE 200

normPart(d) == IF d.part.t = "string" THEN d.part.s ELSE "unknown"

normZone(d) == IF d.zone.t = "string" THEN d.zone.s ELSE "unknown"

normDamageType(d) ==
    IF d.damage_type.t = "string" THEN d.damage_type.s ELSE "unknown"

normHours(d) ==
    IF d.est_labor_hours.t = "number" THEN d.est_labor_hours.n
    ELSE hoursFor(normPart(d), normSeverity(d))

normPaint(d) ==
    IF d.needs_paint.t = "boolean" THEN d.needs_paint.n = 1
    ELSE needsPaintFor(normDamageType(d), normSeverity(d), normPart(d))

\* variant: a numeric confidence is taken as it is
normConfidence_noClamp(d) ==
    IF d.confidence.t = "number" THEN d.confidence.n ELSE 50

normConfidence(d) ==
    IF d.confidence.t = "number" THEN Max(0, Min(100, d.confidence.n)) ELSE 50

normLikelyParts(d) ==
    IF d.likely_parts.t = "array" THEN SeqMap(String, d.likely_parts.a) ELSE <<>>

numberOf(v) == v.n
pointOf(pt) == <<pt.a[1].n, pt.a[2].n>>

normBBox(d) ==
    IF isBBoxRel(d.bbox_rel) THEN SeqMap(numberOf, d.bbox_rel.a) ELSE NoGeom

normPolygon(d) ==
    IF isPolygonRel(d.polygon_rel) THEN SeqMap(pointOf, d.polygon_rel.a) ELSE NoGeom

\* the map callback throws on dIn (at .map(String) of likely_parts)
normalizeThrows(dIn) ==
    LET d == IF isRecord(dIn) THEN dIn ELSE EmptyObject
    IN  /\ d.likely_parts.t = "array"
        /\ \E i \in 1..Len(d.likely_parts.a) : StringThrows(d.likely_parts.a[i])

normalizeItem(dIn) ==
    LET d == IF isRecord(dIn) THEN dIn ELSE EmptyObject
    IN  [zone            |-> normZone(d),
         part            |-> normPart(d),
         damage_type     |-> normDamageType(d),
         severity        |-> normSeverity(d),
         confidence      |-> normConfidence(d),
         est_labor_hours |-> normHours(d),
         needs_paint     |-> normPaint(d),
         likely_parts    |-> normLikelyParts(d),
         bbox_rel        |-> normBBox(d),
         polygon_rel     |-> normPolygon(d)]

(***************************************************************************)
(* Configuration read from the environment at process start.               *)
(***************************************************************************)
LABOR             == env.LABOR
PAINT             == env.PAINT
AUTO_MAX_COST     == env.AUTO_MAX_COST
AUTO_MAX_SEVERITY == env.AUTO_MAX_SEVERITY
AUTO_MIN_CONF     == env.AUTO_MIN_CONF
SPEC_MIN_COST     == env.SPEC_MIN_COST
SPEC_MIN_SEVERITY == env.SPEC_MIN_SEVERITY

\* the defaults of the ?? operands; severities and confidence in hundredths
DefaultEnv ==
    [LABOR |-> 95, PAINT |-> 180, AUTO_MAX_COST |-> 1500, AUTO_MAX_SEVERITY |-> 200,
     AUTO_MIN_CONF |-> 75, SPEC_MIN_COST |-> 5000, SPEC_MIN_SEVERITY |-> 400]

\* environments the process may be started with: the defaults, a lower
\* confidence bar, and two whose AUTO and SPECIALIST bands overlap
Envs ==
    { DefaultEnv,
      [DefaultEnv EXCEPT !.AUTO_MIN_CONF = 50],
      [DefaultEnv EXCEPT !.AUTO_MAX_SEVERITY = 400, !.SPEC_MIN_SEVERITY = 200],
      [DefaultEnv EXCEPT !.AUTO_MAX_COST = 5000, !.SPEC_MIN_COST = 1000] }

(***************************************************************************)
(* Heuristic estimator.                                                    *)
(***************************************************************************)
perPart == 250
summaryLimit == 400

\* variant: the listed parts are charged without the floor of one part,
\* so a severe record with no listed part adds nothing
estimateStep_noFloor(acc, d) ==
    LET charge == d.needs_paint /\ d.zone /= "" /\ d.zone \notin acc.paintedZones
    IN  [labor        |-> acc.labor + d.est_labor_hours * LABOR,
         paint        |-> IF charge THEN acc.paint + PAINT ELSE acc.paint,
         paintedZones |-> IF charge THEN acc.paintedZones \cup {d.zone}
                          ELSE acc.paintedZones,
         parts        |-> acc.parts + perPart * Len(d.likely_parts)]

\* the body of the for loop, applied to item d with accumulator acc;
\* labor counts cents, paint and parts count dollars
estimateStep(acc, d) ==
    LET sev         == d.severity
        hrs         == d.est_labor_hours
        needPaint   == d.needs_paint
        charge      == needPaint /\ d.zone /= "" /\ d.zone \notin acc.paintedZones
        likelyParts == d.likely_parts
    IN  [labor        |-> acc.labor + hrs * LABOR,
         paint        |-> IF charge THEN acc.paint + PAINT ELSE acc.paint,
         paintedZones |-> IF charge THEN acc.paintedZones \cup {d.zone}
                          ELSE acc.paintedZones,
         parts        |-> IF sev >= 400 \/ Len(likelyParts) /= 0
                          THEN acc.parts + perPart * Max(1, IF Len(likelyParts) /= 0
                                                            THEN Len(likelyParts) ELSE 1)
                          ELSE acc.parts]

RECURSIVE estimateLoop(_, _)
estimateLoop(items, n) ==
    IF n = 0 THEN [labor |-> 0, paint |-> 0, paintedZones |-> {}, parts |-> 0]
    ELSE estimateStep(estimateLoop(items, n - 1), items[n])

\* subtotal in cents
subtotalOf(items) ==
    LET acc == estimateLoop(items, Len(items))
    IN  acc.labor + 100 * (acc.paint + acc.parts)

\* variant: the wide band starts above severity 4
varianceOf_above4(items) ==
    IF \E i \in 1..Len(items) : items[i].severity > 400 THEN 25 ELSE 15

\* variance in hundredths
varianceOf(items) ==
    IF \E i \in 1..Len(items) : items[i].severity >= 400 THEN 25 ELSE 15

estimateFromItems(items) ==
    LET subtotal == subtotalOf(items)
        variance == varianceOf(items)
    IN  [currency  |-> "USD",
         cost_low  |-> MathRound(subtotal * (100 - variance), 10000),
         cost_high |-> MathRound(subtotal * (100 + variance), 10000),
         assumptions |-> << <<"Labor $/hr", LABOR>>,
                            <<"Paint/material $/panel/zone", PAINT>>,
                            <<"Parts allowance (midpoint)", 0>>,
                            <<"Visual-only estimate; subject to teardown", 0>> >>]

(***************************************************************************)
(* Confidence aggregator.  The result is the rational num/den, in          *)
(* hundredths; the weight 1 + 0.2 * (sev - 1) is (400 + sev) / 500, and    *)
(* the common factor 1/500 is left out of both sums.                       *)
(***************************************************************************)
RECURSIVE aggregateLoop(_, _)
aggregateLoop(items, n) ==
    IF n = 0 THEN [numr |-> 0, den |-> 0]
    ELSE LET acc == aggregateLoop(items, n - 1)
             w   == 400 + items[n].severity
         IN  [numr |-> acc.numr + items[n].confidence * w, den |-> acc.den + w]

\* variant: no records count as no confidence at all
aggregateConfidence_emptyZero(items) ==
    LET acc == aggregateLoop(items, Len(items))
    IN  IF acc.den /= 0 THEN [num |-> acc.numr, den |-> acc.den]
        ELSE [num |-> 0, den |-> 1]

aggregateConfidence(items) ==
    LET acc == aggregateLoop(items, Len(items))
    IN  IF acc.den /= 0 THEN [num |-> acc.numr, den |-> acc.den]
        ELSE [num |-> 50, den |-> 1]

(***************************************************************************)
(* The arithmetic of the JavaScript Number: IEEE 754 binary64 with         *)
(* rounding to nearest, ties to even.  A natural number is a sequence of   *)
(* limbs to the base 2^13, low limb first and no zero high limb; a double  *)
(* is m * 2^e with m = 0 or 2^52 <= m < 2^53.  The numbers of the          *)
(* aggregators are positive and far from the subnormal and infinite range. *)
(***************************************************************************)
LimbBits == 13
Base     == 8192

RECURSIVE bnNorm(_)
bnNorm(a) ==
    IF a = <<>> THEN a
    ELSE IF a[Len(a)] = 0 THEN bnNorm(SubSeq(a, 1, Len(a) - 1))
    ELSE a

RECURSIVE bnFromInt(_)
bnFromInt(n) == IF n = 0 THEN <<>> ELSE <<n % Base>> \o bnFromInt(n \div Base)

limb(a, i) == IF i <= Len(a) THEN a[i] ELSE 0

RECURSIVE bnAddFrom(_, _, _, _)
bnAddFrom(a, b, i, carry) ==
    IF i > Len(a) /\ i > Len(b)
    THEN (IF carry = 0 THEN <<>> ELSE <<carry>>)
    ELSE LET s == limb(a, i) + limb(b, i) + carry
         IN  <<s % Base>> \o bnAddFrom(a, b, i + 1, s \div Base)

bnAdd(a, b) == bnAddFrom(a, b, 1, 0)

\* a - b for a >= b
RECURSIVE bnSubFrom(_, _, _, _)
bnSubFrom(a, b, i, borrow) ==
    IF i > Len(a) THEN <<>>
    ELSE LET d == a[i] - limb(b, i) - borrow
         IN  <<IF d < 0 THEN d + Base ELSE d>>
                \o bnSubFrom(a, b, i + 1, IF d < 0 THEN 1 ELSE 0)

bnSub(a, b) == bnNorm(bnSubFrom(a, b, 1, 0))

\* -1, 0, 1 as a < b, a = b, a > b
RECURSIVE bnCmpAt(_, _, _)
bnCmpAt(a, b, i) ==
    IF i = 0 THEN 0
    ELSE IF a[i] < b[i] THEN -1
    ELSE IF a[i] > b[i] THEN 1
    ELSE bnCmpAt(a, b, i - 1)

bnCmp(a, b) ==
    IF Len(a) < Len(b) THEN -1
    ELSE IF Len(a) > Len(b) THEN 1
    ELSE bnCmpAt(a, b, Len(a))

\* a * k for 0 <= k <= Base
RECURSIVE bnMulSmallFrom(_, _, _, _)
bnMulSmallFrom(a, k, i, carry) ==
    IF i > Len(a) THEN (IF carry = 0 THEN <<>> ELSE <<carry>>)
    ELSE LET s == a[i] * k + carry
         IN  <<s % Base>> \o bnMulSmallFrom(a, k, i + 1, s \div Base)

bnMulSmall(a, k) == bnNorm(bnMulSmallFrom(a, k, 1, 0))

\* a * Base^n
RECURSIVE bnShiftLimbs(_, _)
bnShiftLimbs(a, n) ==
    IF a = <<>> \/ n = 0 THEN a ELSE <<0>> \o bnShiftLimbs(a, n - 1)

RECURSIVE bnMulFrom(_, _, _)
bnMulFrom(a, b, i) ==
    IF i > Len(b) THEN <<>>
    ELSE bnAdd(bnShiftLimbs(bnMulSmall(a, b[i]), i - 1), bnMulFrom(a, b, i + 1))

bnMul(a, b) == bnMulFrom(a, b, 1)

\* a * 2^s
bnShl(a, s) == bnShiftLimbs(bnMulSmall(a, 2 ^ (s % LimbBits)), s \div LimbBits)

\* floor(a / 2^r) from limb i on, for r < LimbBits
RECURSIVE bnShrFrom(_, _, _)
bnShrFrom(a, r, i) ==
    IF i > Len(a) THEN <<>>
    ELSE <<(a[i] \div 2 ^ r) + (limb(a, i + 1) % 2 ^ r) * 2 ^ (LimbBits - r)>>
            \o bnShrFrom(a, r, i + 1)

\* floor(a / 2^s)
bnShr(a, s) == bnNorm(bnShrFrom(a, s % LimbBits, s \div LimbBits + 1))

\* the number of bits of a
bnBitLen(a) ==
    IF a = <<>> THEN 0
    ELSE LimbBits * (Len(a) - 1)
         + (CHOOSE k \in 1..LimbBits : 2 ^ (k - 1) <= a[Len(a)] /\ a[Len(a)] < 2 ^ k)

\* the limb floor(x / b) for x < b * Base and a b of 53 bits: an estimate
\* from the high limbs, then the exact test
bnDivLimb(x, b) ==
    LET n   == Len(b)
        bt  == b[n] * Base + b[n - 1]
        xt  == limb(x, n - 1) + limb(x, n) * Base + limb(x, n + 1) * Base * Base
        est == xt \div bt
    IN  CHOOSE d \in (est - 3)..(est + 1) :
           /\ d >= 0
           /\ bnCmp(bnMulSmall(b, d), x) <= 0
           /\ bnCmp(bnMulSmall(b, d + 1), x) > 0

\* quotient and remainder of a by b from the limb i of a down, q and r being
\* the quotient and the remainder of the limbs above i
RECURSIVE bnDivDown(_, _, _, _, _)
bnDivDown(a, b, i, q, r) ==
    IF i = 0 THEN [q |-> bnNorm(q), r |-> r]
    ELSE LET x == bnNorm(<<a[i]>> \o r)
             d == bnDivLimb(x, b)
         IN  IF d = 0 THEN bnDivDown(a, b, i - 1, <<0>> \o q, x)
             ELSE bnDivDown(a, b, i - 1, <<d>> \o q, bnSub(x, bnMulSmall(b, d)))

\* quotient and remainder of a by b, for a b of 53 bits
bnDivMod(a, b) ==
    IF bnCmp(a, b) < 0 THEN [q |-> <<>>, r |-> a]
    ELSE bnDivDown(a, b, Len(a) - Len(b) + 1, <<>>,
                   SubSeq(a, Len(a) - Len(b) + 2, Len(a)))

\* the double nearest to m * 2^e, ties to even
roundToDouble(m, e) ==
    LET len == bnBitLen(m)
    IN  IF len = 0 THEN [m |-> <<>>, e |-> 0]
        ELSE IF len <= 53 THEN [m |-> bnShl(m, 53 - len), e |-> e - (53 - len)]
        ELSE LET s    == len - 53
                 q    == bnShr(m, s)
                 rem  == bnSub(m, bnShl(q, s))
                 half == bnShl(<<1>>, s - 1)
                 c    == bnCmp(rem, half)
                 up   == c > 0 \/ (c = 0 /\ q[1] % 2 = 1)
                 q1   == IF up THEN bnAdd(q, <<1>>) ELSE q
             IN  IF bnBitLen(q1) = 54 THEN [m |-> bnShr(q1, 1), e |-> e + s + 1]
                 ELSE [m |-> q1, e |-> e + s]

\* the double of an integer 0 <= n < 2^31
doubleOfInt(n) == roundToDouble(bnFromInt(n), 0)

\* a * b
fmul(a, b) ==
    IF a.m = <<>> THEN a
    ELSE IF b.m = <<>> THEN b
    ELSE roundToDouble(bnMul(a.m, b.m), a.e + b.e)

\* a + b
fadd(a, b) ==
    IF a.m = <<>> THEN b
    ELSE IF b.m = <<>> THEN a
    ELSE LET e == IF a.e <= b.e THEN a.e ELSE b.e
         IN  roundToDouble(bnAdd(bnShl(a.m, a.e - e), bnShl(b.m, b.e - e)), e)

\* -1, 0, 1 as a < b, a = b, a > b
fcmp(a, b) ==
    IF a.m = <<>> THEN (IF b.m = <<>> THEN 0 ELSE -1)
    ELSE IF b.m = <<>> THEN 1
    ELSE LET e == IF a.e <= b.e THEN a.e ELSE b.e
         IN  bnCmp(bnShl(a.m, a.e - e), bnShl(b.m, b.e - e))

\* a - b for a >= b
fsub(a, b) ==
    IF b.m = <<>> THEN a
    ELSE LET e == IF a.e <= b.e THEN a.e ELSE b.e
         IN  roundToDouble(bnSub(bnShl(a.m, a.e - e), bnShl(b.m, b.e - e)), e)

\* a / b for b > 0: 57 or 58 bits of the quotient and a sticky bit
fdiv(a, b) ==
    IF a.m = <<>> \/ b.m = <<>> THEN a
    ELSE LET d == bnDivMod(bnShl(a.m, 57), b.m)
             sticky == IF d.r = <<>> THEN <<>> ELSE <<1>>
         IN  roundToDouble(bnAdd(bnMulSmall(d.q, 2), sticky), a.e - b.e - 58)

\* the double written as the decimal n / 100, as JSON.parse reads it
DoubleOfHundredths == [n \in 0..500 |-> fdiv(doubleOfInt(n), doubleOfInt(100))]
doubleOf(n) == DoubleOfHundredths[n]

\* the literals 0.2 and 0.5
Double02 == fdiv(doubleOfInt(2), doubleOfInt(10))
Double05 == fdiv(doubleOfInt(1), doubleOfInt(2))

\* aggregateConfidence in the arithmetic of the Number; severity and
\* confidence of a record are kept in hundredths
RECURSIVE aggregateDoubleLoop(_, _)
aggregateDoubleLoop(items, n) ==
    IF n = 0 THEN [numr |-> doubleOfInt(0), den |-> doubleOfInt(0)]
    ELSE LET acc  == aggregateDoubleLoop(items, n - 1)
             sev  == doubleOf(items[n].severity)
             conf == doubleOf(items[n].confidence)
             w    == fadd(doubleOfInt(1), fmul(Double02, fsub(sev, doubleOfInt(1))))
         IN  [numr |-> fadd(acc.numr, fmul(conf, w)), den |-> fadd(acc.den, w)]

aggregateConfidenceDouble(items) ==
    LET acc == aggregateDoubleLoop(items, Len(items))
    IN  IF acc.den.m /= <<>> THEN fdiv(acc.numr, acc.den) ELSE Double05

(***************************************************************************)
(* The page's confidence aggregator, applied to the result's damage_items; *)
(* same scale as aggregateConfidence.                                      *)
(***************************************************************************)
RECURSIVE aggregateDecisionLoop(_, _)
aggregateDecisionLoop(items, n) ==
    IF n = 0 THEN [num |-> 0, den |-> 0]
    ELSE LET acc  == aggregateDecisionLoop(items, n - 1)
             sev  == items[n].severity
             conf == items[n].confidence
             w    == 500 + (sev - 100)
         IN  [num |-> acc.num + conf * w, den |-> acc.den + w]

\* variant: every record weighs the same
RECURSIVE confidenceSum(_, _)
confidenceSum(items, n) ==
    IF n = 0 THEN 0 ELSE confidenceSum(items, n - 1) + items[n].confidence

aggregateDecisionConfidence_unweighted(items) ==
    IF Len(items) = 0 THEN [num |-> 50, den |-> 1]
    ELSE [num |-> confidenceSum(items, Len(items)), den |-> Len(items)]

aggregateDecisionConfidence(items) ==
    IF Len(items) = 0 THEN [num |-> 50, den |-> 1]
    ELSE LET acc == aggregateDecisionLoop(items, Len(items))
         IN  IF acc.den /= 0 THEN acc ELSE [num |-> 50, den |-> 1]

(***************************************************************************)
(* Decision engine.                                                        *)
(***************************************************************************)
RECURSIVE maxSeverity(_, _)
maxSeverity(items, n) ==
    IF n = 0 THEN 0 ELSE Max(maxSeverity(items, n - 1), items[n].severity)

\* a plausible slip: the confidence bound is forgotten
autoApproveCond_noConfidence(maxSev, hi, agg) ==
    /\ maxSev <= AUTO_MAX_SEVERITY
    /\ hi <= AUTO_MAX_COST

autoApproveCond(maxSev, hi, agg) ==
    /\ maxSev <= AUTO_MAX_SEVERITY
    /\ hi <= AUTO_MAX_COST
    /\ agg.num >= AUTO_MIN_CONF * agg.den

specialistCond(maxSev, hi) == maxSev >= SPEC_MIN_SEVERITY \/ hi >= SPEC_MIN_COST

autoApproveReasons ==
    << <<"severity <=", AUTO_MAX_SEVERITY>>,
       <<"cost_high <= $", AUTO_MAX_COST>>,
       <<"agg_conf >= %", MathRound(AUTO_MIN_CONF, 1)>> >>

\* a plausible slip: both reasons are listed whichever condition triggered
specialistReasons_both(maxSev, hi) ==
    << <<"severity >=", SPEC_MIN_SEVERITY>>, <<"cost_high >= $", SPEC_MIN_COST>> >>

specialistReasons(maxSev, hi) ==
    (IF maxSev >= SPEC_MIN_SEVERITY
     THEN << <<"severity >=", SPEC_MIN_SEVERITY>> >> ELSE <<>>)
    \o
    (IF hi >= SPEC_MIN_COST
     THEN << <<"cost_high >= $", SPEC_MIN_COST>> >> ELSE <<>>)

\* a plausible slip: the percentage is truncated instead of rounded
investigateReasons_truncated(agg, maxSev, hi) ==
    << <<"agg_conf %", agg.num \div agg.den>>,
       <<"max_severity", maxSev>>,
       <<"cost_high $", hi>> >>

investigateReasons(agg, maxSev, hi) ==
    << <<"agg_conf %", MathRound(agg.num, agg.den)>>,
       <<"max_severity", maxSev>>,
       <<"cost_high $", hi>> >>

\* a plausible slip: the SPECIALIST test is made before the AUTO-APPROVE test
routeDecision_specialistFirst(items, estimate) ==
    LET maxSev == maxSeverity(items, Len(items))
        agg    == aggregateConfidence(items)
        hi     == estimate.cost_high
    IN  IF specialistCond(maxSev, hi)
        THEN [label |-> "SPECIALIST", reasons |-> specialistReasons(maxSev, hi)]
        ELSE IF autoApproveCond(maxSev, hi, agg)
        THEN [label |-> "AUTO-APPROVE", reasons |-> autoApproveReasons]
        ELSE [label |-> "INVESTIGATE", reasons |-> investigateReasons(agg, maxSev, hi)]

routeDecision(items, estimate) ==
    LET maxSev == maxSeverity(items, Len(items))
        agg    == aggregateConfidence(items)
        hi     == estimate.cost_high
    IN  IF autoApproveCond(maxSev, hi, agg)
        THEN [label |-> "AUTO-APPROVE", reasons |-> autoApproveReasons]
        ELSE IF specialistCond(maxSev, hi)
        THEN [label |-> "SPECIALIST", reasons |-> specialistReasons(maxSev, hi)]
        ELSE [label |-> "INVESTIGATE", reasons |-> investigateReasons(agg, maxSev, hi)]

(***************************************************************************)
(* Inputs of the model: what the client posts and what the vision model    *)
(* answers.                                                                *)
(***************************************************************************)
SeqsUpTo(S, n) == UNION { [1..k -> S] : k \in 0..n }

ValidBox   == Arr(<<Num(10), Num(20), Num(30), Num(40)>>)
OutOfRangeBox == Arr(<<Num(10), Num(20), Num(30), Num(150)>>)
Pt(x, y)   == Arr(<<Num(x), Num(y)>>)
ValidPolygon    == Arr(<<Pt(0, 0), Pt(100, 0), Pt(50, 100)>>)
TwoPointPolygon == Arr(<<Pt(0, 0), Pt(100, 100)>>)

\* elements of the "yolo" form field
SeedValid   == [t |-> "object", confidence |-> Num(150), bbox_rel |-> ValidBox]
SeedBadBox  == [t |-> "object", confidence |-> Num(90), bbox_rel |-> OutOfRangeBox]
SeedNull    == [t |-> "null", confidence |-> Undef, bbox_rel |-> Undef]
SeedInputs  == {SeedValid, SeedBadBox, SeedNull}

\* the "yolo" form field: absent, not JSON, JSON that is not an array, an array
YoloInputs ==
    {[kind |-> "absent", a |-> <<>>], [kind |-> "malformed", a |-> <<>>],
     [kind |-> "notArray", a |-> <<>>]}
    \cup {[kind |-> "array", a |-> xs] : xs \in SeqsUpTo(SeedInputs, MaxSeeds)}

\* the imageUrl form field after trim; "" stands for a missing or blank field
UrlInputs ==
    {"", "https://host/car.jpg", "http://host/car.jpg", "ftp://host/car.jpg", "not a url"}

\* new URL(u).protocol, or "throws" when the constructor throws
urlProtocol(u) ==
    CASE u = "https://host/car.jpg" -> "https:"
      [] u = "http://host/car.jpg"  -> "http:"
      [] u = "ftp://host/car.jpg"   -> "ftp:"
      [] OTHER                      -> "throws"

\* candidate observations that are not plain objects
NonObjectCandidates ==
    {[EmptyObject EXCEPT !.t = "null"], [EmptyObject EXCEPT !.t = "array"]}

\* candidate observations of the request flow
Candidates ==
    [t : {"object"},
     zone : {Str("front-left")},
     part : {Str("door")},
     damage_type : {Str("dent")},
     severity : {Undef, Num(250), Num(300), Num(500)},
     confidence : {Num(40), Num(90)},
     est_labor_hours : {Undef, Num(-300), Num(4000)},
     needs_paint : {Undef},
     likely_parts : {Undef},
     bbox_rel : {Undef},
     polygon_rel : {Undef}]
    \cup NonObjectCandidates
    \cup {[EmptyObject EXCEPT !.likely_parts = Arr(<<Obj("toString")>>)]}

\* candidate observations of the single-item flow: every field ranges over
\* missing, ill-typed, out-of-range and valid values
WideCandidates ==
    [t : {"object"},
     zone : {Undef, Str("rear"), Str("banana"), Str("")},
     part : {Undef, Str("mirror"), Str("spoiler")},
     damage_type : {Num(100), Str("deep-scratch"), Str("rust")},
     severity : {Undef, Str("3"), Num(0), Num(100), Num(250), Num(600)},
     confidence : {Undef, Num(-50), Num(40), Num(150)},
     est_labor_hours : {Undef, Num(-300), Num(210)},
     needs_paint : {Undef, Bool(FALSE)},
     likely_parts : {Str("door"), Arr(<<Str("door skin"), Null>>),
                     Arr(<<Obj(""), Obj("toString")>>)},
     bbox_rel : {Undef, ValidBox, OutOfRangeBox},
     polygon_rel : {Undef, ValidPolygon, TwoPointPolygon}]

\* what the provider's message content is: not JSON, JSON that is not an
\* object, an object whose damage_items is not an array, or an object with
\* an array of candidates
\* candidates that differ in what the estimator reads
EstCandidates ==
    [t : {"object"}, zone : {Str("front-left"), Str("rear")}, part : {Str("door")},
     damage_type : {Str("dent")},
     severity : {Undef, Num(300), Num(400)},
     confidence : {Num(90)},
     est_labor_hours : {Undef, Num(-4000)},
     needs_paint : {Undef, Bool(FALSE)},
     likely_parts : {Undef, Arr(<<Str("door skin"), Null>>)},
     bbox_rel : {Undef}, polygon_rel : {Undef}]

\* geometry of every shape the guards tell apart
EdgeBox    == Arr(<<Num(0), Num(0), Num(100), Num(100)>>)
ShortBox   == Arr(<<Num(10), Num(20), Num(30)>>)
MixedBox   == Arr(<<Num(10), Num(20), Num(30), Str("0.4")>>)
NegativeBox == Arr(<<Num(-10), Num(20), Num(30), Num(40)>>)
BoxInputs  == {Undef, Str("box"), ValidBox, EdgeBox, OutOfRangeBox, NegativeBox,
               ShortBox, MixedBox}
PolygonOf(k) == Arr([i \in 1..k |-> Pt(5 * i, 100 - 5 * i)])
OutOfRangePolygon == Arr(<<Pt(0, 0), Pt(100, 0), Pt(50, 120)>>)
FlatPolygon       == Arr(<<Num(0), Num(0), Num(100), Num(0), Num(50), Num(100)>>)
TriplePolygon     == Arr(<<Pt(0, 0), Pt(100, 0), Arr(<<Num(50), Num(100), Num(0)>>)>>)
PolygonInputs == {Undef, Null, ValidPolygon, PolygonOf(12), PolygonOf(13),
                  TwoPointPolygon, OutOfRangePolygon, FlatPolygon, TriplePolygon}

\* candidates that differ in confidence and geometry
GeometryCandidates ==
    [t : {"object"}, zone : {Str("rear")}, part : {Str("door")},
     damage_type : {Str("dent")}, severity : {Num(300)},
     confidence : {Undef, Null, Str("0.9"), Num(-50), Num(0), Num(40), Num(100),
                   Num(150)},
     est_labor_hours : {Undef}, needs_paint : {Undef}, likely_parts : {Undef},
     bbox_rel : BoxInputs, polygon_rel : PolygonInputs]

\* candidates that differ in what the labor hours are derived from
HoursCandidates ==
    [t : {"object"}, zone : {Str("rear")},
     part : {Undef, Str("spoiler")} \cup {Str(p) : p \in Part},
     damage_type : {Str("dent")},
     severity : {Undef, Num(100), Num(200), Num(250), Num(300), Num(400), Num(500)},
     confidence : {Num(90)},
     est_labor_hours : {Undef, Str("2"), Num(0), Num(210)},
     needs_paint : {Undef}, likely_parts : {Undef},
     bbox_rel : {Undef}, polygon_rel : {Undef}]

\* candidates that differ in what the paint need is derived from
PaintCandidates ==
    [t : {"object"}, zone : {Str("rear")},
     part : {Undef, Str("windshield"), Str("headlight"), Str("taillight"),
             Str("mirror"), Str("door")},
     damage_type : {Undef, Str(""), Str("dent"), Str("scratch"), Str("deep-scratch"),
                    Str("paint-chips"), Str("repaint")},
     severity : {Undef, Num(100), Num(150), Num(200), Num(500)},
     confidence : {Num(90)},
     est_labor_hours : {Undef},
     needs_paint : {Undef, Null, Str("yes"), Bool(TRUE), Bool(FALSE)},
     likely_parts : {Undef},
     bbox_rel : {Undef}, polygon_rel : {Undef}]

FieldCandidates == GeometryCandidates \cup HoursCandidates \cup PaintCandidates

InvalidJSON == [json |-> FALSE, t |-> "undefined", damage_items |-> Undef, narrative |-> Undef]
NonObjectJSON == [json |-> TRUE, t |-> "number", damage_items |-> Undef, narrative |-> Undef]
NoItemsJSON == [json |-> TRUE, t |-> "object", damage_items |-> Undef, narrative |-> Undef]
NonArrayItemsJSON ==
    [json |-> TRUE, t |-> "object", damage_items |-> Str("none"), narrative |-> Undef]
ItemsJSON(xs) ==
    [json |-> TRUE, t |-> "object", damage_items |-> Arr(xs), narrative |-> Undef]

Completions ==
    {InvalidJSON, NonObjectJSON, NoItemsJSON, NonArrayItemsJSON}
    \cup {ItemsJSON(xs) : xs \in SeqsUpTo(Candidates, MaxItems)}

WideCompletions == {ItemsJSON(xs) : xs \in SeqsUpTo(WideCandidates, 1)}
EstCompletions == {ItemsJSON(xs) : xs \in SeqsUpTo(EstCandidates, MaxItems)}
FieldCompletions == {ItemsJSON(<<x>>) : x \in FieldCandidates}
\* the answers of requests that are compared with an earlier request
TwiceCandidates ==
    { [EmptyObject EXCEPT !.zone = Str("rear"), !.severity = Num(400)],
      [EmptyObject EXCEPT !.zone = Str("rear"), !.part = Str("door"),
                          !.confidence = Num(90)] }
\* answers with a narrative and with enough records for a long summary
RECURSIVE repeat(_, _)
repeat(x, n) == IF n = 0 THEN <<>> ELSE <<x>> \o repeat(x, n - 1)
RECURSIVE repeatString(_, _)
repeatString(s, n) == IF n = 0 THEN "" ELSE s \o repeatString(s, n - 1)
Narratives ==
    {Undef, Num(100), Str(""), Str("Minor dent on the rear door."),
     Str(repeatString("0123456789", 40)), Str(repeatString("0123456789", 45))}
SummaryCandidates ==
    { EmptyObject,
      [EmptyObject EXCEPT !.zone = Str("front-right"), !.part = Str("quarter-panel"),
                          !.damage_type = Str("paint-chips"), !.severity = Num(250)] }
SummaryCompletions ==
    { [ItemsJSON(repeat(x, n)) EXCEPT !.narrative = nar] :
         x \in SummaryCandidates, n \in 0..MaxSummaryItems, nar \in Narratives }
TwiceCompletions ==
    {NoItemsJSON} \cup {ItemsJSON(xs) : xs \in SeqsUpTo(TwiceCandidates, MaxItems)}

(***************************************************************************)
(* The POST handler.                                                       *)
(***************************************************************************)
NoCompletion == [json |-> FALSE, t |-> "none", damage_items |-> Undef, narrative |-> Undef]
NoEstimate   == [currency |-> "USD", cost_low |-> 0, cost_high |-> 0, assumptions |-> <<>>]
NoDecision   == [label |-> "", reasons |-> <<>>]
NoPayload    == [damage_items |-> <<>>, narrative |-> "", estimate |-> NoEstimate,
                 decision |-> NoDecision, damage_summary |-> ""]
NoResponse   == [status |-> 0, error_code |-> ""]
\* no earlier request has been answered with a payload
NoPrior      == [set |-> FALSE, completion |-> NoCompletion, yoloSeeds |-> <<>>,
                 payload |-> NoPayload]
\* no form data is held
NoForm       == [file |-> FALSE, imageUrl |-> "", yolo |-> [kind |-> "absent", a |-> <<>>]]

errJson(code, status) == [status |-> status, error_code |-> code]

RECURSIVE filterSeeds(_)
filterSeeds(xs) ==
    IF xs = <<>> THEN <<>>
    ELSE (IF isYoloSeed(Head(xs)) THEN <<Head(xs)>> ELSE <<>>) \o filterSeeds(Tail(xs))

\* the seeds kept from the "yolo" form field
parseYolo(yolo) == IF yolo.kind = "array" THEN filterSeeds(yolo.a) ELSE <<>>

\* isRecord(parsed) && Array.isArray(parsed["damage_items"]) ? ... : []
itemsInOf(parsed) ==
    IF isRecord(parsed) /\ parsed.damage_items.t = "array"
    THEN parsed.damage_items.a ELSE <<>>

seedItem(b) ==
    [zone            |-> "unknown",
     part            |-> "unknown",
     damage_type     |-> "unknown",
     severity        |-> 200,
     confidence      |-> Max(0, Min(100, b.confidence.n)),
     est_labor_hours |-> hoursFor("unknown", 200),
     needs_paint     |-> FALSE,
     likely_parts    |-> <<>>,
     bbox_rel        |-> SeqMap(numberOf, b.bbox_rel.a),
     polygon_rel     |-> NoGeom]

itemsFinalOf(items, seeds) ==
    IF Len(items) /= 0 THEN items ELSE SeqMap(seedItem, seeds)

\* typeof parsed["narrative"] === "string" ? parsed["narrative"] : ""
narrativeOf(parsed) ==
    IF isRecord(parsed) /\ parsed.narrative.t = "string" THEN parsed.narrative.s ELSE ""

\* `${n}` for a number n >= 0 given in hundredths: "2" for 200, "2.5" for 250
numberToString(n) ==
    LET whole == ToString(n \div 100)
        frac  == n % 100
    IN  IF frac = 0 THEN whole
        ELSE IF frac % 10 = 0 THEN whole \o "." \o ToString(frac \div 10)
        ELSE whole \o "." \o ToString(frac \div 10) \o ToString(frac % 10)

\* the description of one record; "-" stands for the one-character dash
\* U+2014 of the source
describe(d) ==
    d.zone \o " " \o d.part \o " - " \o d.damage_type \o ", sev "
        \o numberToString(d.severity)

RECURSIVE join(_, _)
join(xs, sep) ==
    IF Len(xs) = 0 THEN ""
    ELSE IF Len(xs) = 1 THEN xs[1]
    ELSE xs[1] \o sep \o join(Tail(xs), sep)

\* s.slice(0, n)
slice0(s, n) == IF Len(s) <= n THEN s ELSE SubSeq(s, 1, n)

\* variant: the summary is cut after 400 characters of each description
damageSummaryOf_perRecord(itemsFinal, narrative) ==
    IF Len(itemsFinal) /= 0
    THEN join([i \in 1..Len(itemsFinal) |-> slice0(describe(itemsFinal[i]), summaryLimit)],
              "; ")
    ELSE slice0(narrative, summaryLimit)

damageSummaryOf(itemsFinal, narrative) ==
    slice0(IF Len(itemsFinal) /= 0
           THEN join(SeqMap(describe, itemsFinal), "; ")
           ELSE narrative,
           summaryLimit)

buildPayload(parsed, seeds) ==
    LET itemsIn    == itemsInOf(parsed)
        items      == SeqMap(normalizeItem, itemsIn)
        itemsFinal == itemsFinalOf(items, seeds)
        estimate   == estimateFromItems(itemsFinal)
        decision   == routeDecision(itemsFinal, estimate)
        narrative  == narrativeOf(parsed)
    IN  [damage_items |-> itemsFinal, narrative |-> narrative, estimate |-> estimate,
         decision |-> decision,
         damage_summary |-> damageSummaryOf(itemsFinal, narrative)]

(***************************************************************************)
(* app/api/detect/route.ts: numbers.  A number is NaN, an infinity         *)
(* (p = 1 or -1) or the rational p/q with q > 0; the sign of zero is not   *)
(* kept.                                                                   *)
(***************************************************************************)
NaN         == [k |-> "nan", p |-> 0, q |-> 1]
Infinity(s) == [k |-> "inf", p |-> s, q |-> 1]
Fin(p, q)   == [k |-> "fin", p |-> p, q |-> q]

sign(n) == IF n > 0 THEN 1 ELSE IF n < 0 THEN -1 ELSE 0

\* a < b for numbers that are not NaN
jsLess(a, b) ==
    IF a.k = "inf" THEN a.p = -1 /\ ~(b.k = "inf" /\ b.p = -1)
    ELSE IF b.k = "inf" THEN b.p = 1
    ELSE a.p * b.q < b.p * a.q

\* a - b
jsSub(a, b) ==
    IF a.k = "nan" \/ b.k = "nan" THEN NaN
    ELSE IF a.k = "inf" THEN (IF b.k = "inf" /\ b.p = a.p THEN NaN ELSE a)
    ELSE IF b.k = "inf" THEN Infinity(-b.p)
    ELSE Fin(a.p * b.q - b.p * a.q, a.q * b.q)

\* a / b
jsDiv(a, b) ==
    IF a.k = "nan" \/ b.k = "nan" THEN NaN
    ELSE IF a.k = "inf" THEN (IF b.k = "inf" THEN NaN
                              ELSE Infinity(IF b.p < 0 THEN -a.p ELSE a.p))
    ELSE IF b.k = "inf" THEN Fin(0, 1)
    ELSE IF b.p = 0 THEN (IF a.p = 0 THEN NaN ELSE Infinity(sign(a.p)))
    ELSE Fin(a.p * b.q * sign(b.p), a.q * b.p * sign(b.p))

\* Math.min(a, b), Math.max(a, b): NaN if either argument is NaN
MathMin(a, b) ==
    IF a.k = "nan" \/ b.k = "nan" THEN NaN ELSE IF jsLess(b, a) THEN b ELSE a
MathMax(a, b) ==
    IF a.k = "nan" \/ b.k = "nan" THEN NaN ELSE IF jsLess(a, b) THEN b ELSE a

\* Math.max(0, Math.min(1, v))
clamp01(v) == MathMax(Fin(0, 1), MathMin(Fin(1, 1), v))

\* the number of a JSON number (kept in hundredths)
numOf(v) == Fin(v.n, 100)

\* getNum(obj, key) !== undefined, for the value v = obj[key]
hasNum(v) == v.t = "number"

(***************************************************************************)
(* app/api/detect/route.ts: extractPredictions and detectWithRoboflow.     *)
(***************************************************************************)
extractPredictions(obj) ==
    IF ~isRecord(obj) THEN <<>>
    ELSE IF obj.predictions.t = "array" THEN obj.predictions.a
    ELSE IF isRecord(obj.result) /\ obj.result.predictions.t = "array"
         THEN obj.result.predictions.a
    ELSE IF obj.outputs.t = "array" THEN obj.outputs.a
    ELSE <<>>

\* const conf = getNum(p, "confidence") ?? getNum(p, "conf") ?? 0.5
confOf(p) ==
    IF hasNum(p.confidence) THEN numOf(p.confidence)
    ELSE IF hasNum(p.conf) THEN numOf(p.conf)
    ELSE Fin(50, 100)

isCenterFormat(p) ==
    /\ hasNum(p.x) /\ hasNum(p.y) /\ hasNum(p.width) /\ hasNum(p.height)
    /\ hasNum(p.image_width) /\ hasNum(p.image_height)

isCornerFormat(p) ==
    hasNum(p.x_min) /\ hasNum(p.x_max) /\ hasNum(p.y_min) /\ hasNum(p.y_max)

\* the box pushed for one prediction (the body of the for loop)
boxOf(p) ==
    IF isCenterFormat(p)
    THEN LET cx == numOf(p.x)
             cy == numOf(p.y)
             w  == numOf(p.width)
             h  == numOf(p.height)
             W  == numOf(p.image_width)
             H  == numOf(p.image_height)
             nx == clamp01(jsDiv(jsSub(cx, jsDiv(w, Fin(2, 1))), W))
             ny == clamp01(jsDiv(jsSub(cy, jsDiv(h, Fin(2, 1))), H))
             nw == clamp01(jsDiv(w, W))
             nh == clamp01(jsDiv(h, H))
         IN  [bbox_rel |-> <<nx, ny, nw, nh>>, confidence |-> confOf(p)]
    ELSE LET xmin == numOf(p.x_min)
             ymin == numOf(p.y_min)
             xmax == numOf(p.x_max)
             ymax == numOf(p.y_max)
             nx == clamp01(xmin)
             ny == clamp01(ymin)
             nw == clamp01(jsSub(xmax, xmin))
             nh == clamp01(jsSub(ymax, ymin))
         IN  [bbox_rel |-> <<nx, ny, nw, nh>>, confidence |-> confOf(p)]

RECURSIVE boxesOf(_)
boxesOf(preds) ==
    IF preds = <<>> THEN <<>>
    ELSE LET p == Head(preds)
         IN  (IF isRecord(p) /\ p.t = "object" /\ (isCenterFormat(p) \/ isCornerFormat(p))
              THEN <<boxOf(p)>> ELSE <<>>) \o boxesOf(Tail(preds))

\* the result of detectWithRoboflow for the provider's answer res
detectWithRoboflow(configured, res) ==
    IF ~configured THEN <<>>
    ELSE IF res.kind /= "ok" THEN <<>>
    ELSE boxesOf(extractPredictions(res.data))

(***************************************************************************)
(* The provider's answers.                                                 *)
(***************************************************************************)
NoPrediction ==
    [t |-> "object", x |-> Undef, y |-> Undef, width |-> Undef, height |-> Undef,
     image_width |-> Undef, image_height |-> Undef,
     x_min |-> Undef, x_max |-> Undef, y_min |-> Undef, y_max |-> Undef,
     confidence |-> Undef, conf |-> Undef]

\* centre format in pixels: x, width, image_width and y, height, image_height
CenterPredictions ==
    { [NoPrediction EXCEPT !.x = Num(h[1]), !.width = Num(h[2]),
                           !.image_width = Num(h[3]),
                           !.y = Num(v[1]), !.height = Num(v[2]),
                           !.image_height = Num(v[3])] :
        h \in {<<0, 0, 0>>, <<5000, 10000, 20000>>, <<30000, 10000, 20000>>,
               <<5000, 10000, 0>>},
        v \in {<<0, 0, 0>>, <<5000, 10000, 20000>>, <<1000, 2000, 0>>} }

\* corner format, already relative; also with x_max < x_min
CornerPredictions ==
    { [NoPrediction EXCEPT !.x_min = Num(a), !.x_max = Num(b),
                           !.y_min = Num(v[1]), !.y_max = Num(v[2])] :
        a \in {-10, 80}, b \in {50, 150},
        v \in {<<10, 90>>, <<90, 10>>} }

\* no box format, x a string, both formats at once; not an object
OtherPredictions ==
    { NoPrediction,
      [NoPrediction EXCEPT !.x = Str("50"), !.y = Num(5000), !.width = Num(10000),
                           !.height = Num(10000), !.image_width = Num(20000),
                           !.image_height = Num(20000)],
      [NoPrediction EXCEPT !.x = Num(5000), !.y = Num(5000), !.width = Num(10000),
                           !.height = Num(10000), !.image_width = Num(20000),
                           !.image_height = Num(20000),
                           !.x_min = Num(20), !.x_max = Num(50),
                           !.y_min = Num(10), !.y_max = Num(90)],
      Num(100), Null }

ConfidenceInputs ==
    { [confidence |-> Undef, conf |-> Undef], [confidence |-> Num(90), conf |-> Undef],
      [confidence |-> Undef, conf |-> Num(70)], [confidence |-> Num(150), conf |-> Num(70)] }

withConfidence(p, c) ==
    IF p.t = "object" THEN [p EXCEPT !.confidence = c.confidence, !.conf = c.conf] ELSE p

\* a centre and a corner prediction that carry a confidence
ScoredPredictions ==
    { [NoPrediction EXCEPT !.x = Num(5000), !.width = Num(10000),
                           !.image_width = Num(20000), !.y = Num(5000),
                           !.height = Num(10000), !.image_height = Num(20000)],
      [NoPrediction EXCEPT !.x_min = Num(20), !.x_max = Num(50),
                           !.y_min = Num(10), !.y_max = Num(90)] }

PredictionInputs ==
    CenterPredictions \cup CornerPredictions \cup OtherPredictions
    \cup { withConfidence(p, c) : p \in ScoredPredictions, c \in ConfidenceInputs }

\* the shapes of the answer's body accepted by extractPredictions
NoData == [t |-> "object", predictions |-> Undef, result |-> Undef, outputs |-> Undef]
DataShapesOf(ps) ==
    { [NoData EXCEPT !.predictions = Arr(ps)],
      [NoData EXCEPT !.result = [t |-> "object", predictions |-> Arr(ps)]],
      [NoData EXCEPT !.outputs = Arr(ps)] }
OtherData ==
    { NoData, Num(100),
      [NoData EXCEPT !.result = [t |-> "object", predictions |-> Undef]] }

RoboflowAnswers ==
    { [kind |-> "ok", data |-> d] :
        d \in OtherData \cup
              UNION { DataShapesOf(ps) : ps \in SeqsUpTo(PredictionInputs, MaxPredictions) } }
    \cup { [kind |-> k, data |-> NoData] : k \in {"rejected", "notOk", "badJson"} }

NoRoboflow == [pc |-> "idle", configured |-> FALSE, res |-> [kind |-> "none", data |-> NoData]]

(***************************************************************************)
(* app/page.tsx: the state of the page before any input.                   *)
(***************************************************************************)
\* file: File | null, a file being known by its name
NoFile == ""

\* an answer of /api/analyze that is not an object, and result === null
NoAnalysis ==
    [t |-> "null", image |-> "", narrative |-> "", damage_items |-> 0, vehicle |-> 0]

NoDetectJson ==
    [t |-> "null", is_vehicle |-> Undef, issues |-> Undef, yolo_boxes |-> Undef]

InitialPage ==
    [mode |-> "upload", file |-> NoFile, imageUrl |-> "", loading |-> FALSE,
     result |-> NoAnalysis, error |-> "", validationIssues |-> Null]

\* no handleSubmit is running
\* an answer of fetch that has not arrived
NoFetch == [kind |-> "none", status |-> 0, text |-> ""]

NoSubmit ==
    [pc |-> "none", mode |-> "upload", file |-> NoFile, imageUrl |-> "",
     dr |-> NoFetch, detectJson |-> NoDetectJson, ar |-> NoFetch]

Init ==
    /\ env \in Envs
    /\ pc = "idle"
    /\ form = NoForm
    /\ yoloSeeds = <<>>
    /\ completion = NoCompletion
    /\ payload = NoPayload
    /\ response = NoResponse
    /\ prior = NoPrior
    /\ roboflow = NoRoboflow
    /\ boxes = <<>>
    /\ page = InitialPage
    /\ submit = NoSubmit
    /\ calls = <<>>

\* variant: every URL that parses is accepted
Begin_anyProtocol(file, imageUrl, yolo) ==
    /\ pc = "formData"
    /\ form' = NoForm
    /\ UNCHANGED <<completion, payload>>
    /\ IF ~file /\ imageUrl = ""
       THEN /\ response' = errJson("E_NO_IMAGE", 400)
            /\ yoloSeeds' = <<>>
            /\ pc' = "done"
       ELSE IF ~file /\ urlProtocol(imageUrl) = "throws"
       THEN /\ response' = errJson("E_BAD_URL", 400)
            /\ yoloSeeds' = <<>>
            /\ pc' = "done"
       ELSE /\ response' = NoResponse
            /\ yoloSeeds' = parseYolo(yolo)
            /\ pc' = "awaitModel"
    /\ UNCHANGED <<env, prior, detectVars, pageVars>>

\* from the form data to the provider call (or an early error return); the
\* form's fields are not read again after this
Begin(file, imageUrl, yolo) ==
    /\ pc = "formData"
    /\ form' = NoForm
    /\ UNCHANGED <<completion, payload>>
    /\ IF ~file /\ imageUrl = ""
       THEN /\ response' = errJson("E_NO_IMAGE", 400)
            /\ yoloSeeds' = <<>>
            /\ pc' = "done"
       ELSE IF ~file /\ urlProtocol(imageUrl) \notin {"http:", "https:"}
       THEN /\ response' = errJson("E_BAD_URL", 400)
            /\ yoloSeeds' = <<>>
            /\ pc' = "done"
       ELSE /\ response' = NoResponse
            /\ yoloSeeds' = parseYolo(yolo)
            /\ pc' = "awaitModel"
    /\ UNCHANGED <<env, prior, detectVars, pageVars>>

\* variant: the estimator's loop state outlives the request, so the records
\* of the last answered request are counted again
Resume_accumulating(c) ==
    /\ pc = "awaitModel"
    /\ completion' = c
    /\ IF ~c.json
       THEN /\ response' = errJson("E_MODEL_JSON", 502)
            /\ payload' = NoPayload
       ELSE IF \E i \in 1..Len(itemsInOf(c)) : normalizeThrows(itemsInOf(c)[i])
       THEN /\ response' = errJson("E_SERVER", 500)
            /\ payload' = NoPayload
       ELSE /\ response' = [status |-> 200, error_code |-> ""]
            /\ payload' =
                  LET p   == buildPayload(c, yoloSeeds)
                      all == prior.payload.damage_items \o p.damage_items
                      est == estimateFromItems(all)
                  IN  [p EXCEPT !.estimate = est, !.decision = routeDecision(all, est)]
    /\ pc' = "done"
    /\ UNCHANGED <<env, form, yoloSeeds, prior, detectVars, pageVars>>

\* from the provider's answer to the response
Resume(c) ==
    /\ pc = "awaitModel"
    /\ completion' = c
    /\ IF ~c.json
       THEN /\ response' = errJson("E_MODEL_JSON", 502)
            /\ payload' = NoPayload
       ELSE IF \E i \in 1..Len(itemsInOf(c)) : normalizeThrows(itemsInOf(c)[i])
       THEN /\ response' = errJson("E_SERVER", 500)
            /\ payload' = NoPayload
       ELSE /\ response' = [status |-> 200, error_code |-> ""]
            /\ payload' = buildPayload(c, yoloSeeds)
    /\ pc' = "done"
    /\ UNCHANGED <<env, form, yoloSeeds, prior, detectVars, pageVars>>

\* a request arrives and the handler awaits its form data
POST_receive ==
    /\ pc = "idle"
    /\ \E file \in BOOLEAN, imageUrl \in UrlInputs, yolo \in YoloInputs :
          form' = [file |-> file, imageUrl |-> imageUrl, yolo |-> yolo]
    /\ pc' = "formData"
    /\ UNCHANGED <<env, yoloSeeds, completion, payload, response, prior, detectVars, pageVars>>

POST_begin ==
    /\ pc = "formData"
    /\ Begin(form.file, form.imageUrl, form.yolo)

POST_resume ==
    /\ pc = "awaitModel"
    /\ \E c \in Completions : Resume(c)

POST_resumeWide ==
    /\ pc = "awaitModel"
    /\ \E c \in WideCompletions : Resume(c)

POST_resumeEst ==
    /\ pc = "awaitModel"
    /\ \E c \in EstCompletions : Resume(c)

POST_resumeFields ==
    /\ pc = "awaitModel"
    /\ \E c \in FieldCompletions : Resume(c)

\* an awaited call inside try (the form data, the provider) throws
POST_catch ==
    /\ pc \in {"formData", "awaitModel"}
    /\ response' = errJson("E_SERVER", 500)
    /\ pc' = "done"
    /\ form' = NoForm
    /\ UNCHANGED <<env, yoloSeeds, completion, payload, prior, detectVars, pageVars>>

\* the response has been sent; the handler's locals are gone and the
\* process waits for the next request
POST_return ==
    /\ pc = "done"
    /\ pc' = "idle"
    /\ yoloSeeds' = <<>>
    /\ completion' = NoCompletion
    /\ payload' = NoPayload
    /\ response' = NoResponse
    /\ UNCHANGED <<env, form, prior, detectVars, pageVars>>

POST_resumeSummary ==
    /\ pc = "awaitModel"
    /\ \E c \in SummaryCompletions : Resume(c)

\* as POST_return, and the answered request is noted for comparison with
\* the next ones (prior is a history variable, not state of the program)
POST_returnNoting ==
    /\ pc = "done"
    /\ pc' = "idle"
    /\ yoloSeeds' = <<>>
    /\ completion' = NoCompletion
    /\ payload' = NoPayload
    /\ response' = NoResponse
    /\ prior' = IF response.status = 200
                THEN [set |-> TRUE, completion |-> completion,
                      yoloSeeds |-> yoloSeeds, payload |-> payload]
                ELSE prior
    /\ UNCHANGED <<env, form, detectVars, pageVars>>

POST_resumeTwice ==
    /\ pc = "awaitModel"
    /\ \E c \in TwiceCompletions : Resume(c)

Next ==
    POST_receive \/ POST_begin \/ POST_resume \/ POST_catch \/ POST_return

Spec == Init /\ [][Next]_vars

\* the single-item flow: one candidate observation of any shape per answer
NextWide ==
    POST_receive \/ POST_begin \/ POST_resumeWide \/ POST_catch \/ POST_return

InitWide == Init /\ env = DefaultEnv

SpecWide == InitWide /\ [][NextWide]_vars

\* the estimator flow: sequences of candidates with the fields the estimate
\* depends on
NextEst ==
    POST_receive \/ POST_begin \/ POST_resumeEst \/ POST_catch \/ POST_return

SpecEst == InitWide /\ [][NextEst]_vars

\* the field flow: one candidate per answer, over the inputs of the
\* confidence, geometry and labor-hours rules
NextFields ==
    POST_receive \/ POST_begin \/ POST_resumeFields \/ POST_catch \/ POST_return

SpecFields == InitWide /\ [][NextFields]_vars

\* the summary flow: answers with a narrative and none to many records
NextSummary ==
    POST_receive \/ POST_begin \/ POST_resumeSummary \/ POST_catch \/ POST_return

SpecSummary == InitWide /\ [][NextSummary]_vars

\* the repeated flow: requests one after the other, each compared with the
\* last one that was answered with a payload
NextTwice ==
    POST_receive \/ POST_begin \/ POST_resumeTwice \/ POST_catch \/ POST_returnNoting

SpecTwice == Init /\ [][NextTwice]_vars

(***************************************************************************)
(* detectWithRoboflow: the call, the provider's answer, the return.        *)
(***************************************************************************)
\* detectWithRoboflow is called; without the configuration it returns []
\* at once
detect_call ==
    /\ roboflow.pc = "idle"
    /\ \E configured \in BOOLEAN :
          /\ roboflow' = [NoRoboflow EXCEPT !.configured = configured,
                             !.pc = IF configured THEN "fetch" ELSE "returned"]
          /\ boxes' = IF configured THEN boxes
                      ELSE detectWithRoboflow(configured, NoRoboflow.res)
    /\ UNCHANGED <<env, pc, form, yoloSeeds, completion, payload, response, prior, pageVars>>

\* the provider's answer arrives (or the fetch fails) and is converted
detect_convert ==
    /\ roboflow.pc = "fetch"
    /\ \E res \in RoboflowAnswers :
          /\ roboflow' = [roboflow EXCEPT !.pc = "returned", !.res = res]
          /\ boxes' = detectWithRoboflow(roboflow.configured, res)
    /\ UNCHANGED <<env, pc, form, yoloSeeds, completion, payload, response, prior, pageVars>>

\* the boxes are handed to the caller
detect_return ==
    /\ roboflow.pc = "returned"
    /\ roboflow' = NoRoboflow
    /\ boxes' = <<>>
    /\ UNCHANGED <<env, pc, form, yoloSeeds, completion, payload, response, prior, pageVars>>

NextDetect == detect_call \/ detect_convert \/ detect_return

SpecDetect == InitWide /\ [][NextDetect]_vars

(***************************************************************************)
(* app/page.tsx: strings.                                                  *)
(***************************************************************************)
UpperCase == <<"A", "B", "C", "D", "E", "F", "G", "H", "I", "J", "K", "L", "M",
               "N", "O", "P", "Q", "R", "S", "T", "U", "V", "W", "X", "Y", "Z">>
LowerCase == <<"a", "b", "c", "d", "e", "f", "g", "h", "i", "j", "k", "l", "m",
               "n", "o", "p", "q", "r", "s", "t", "u", "v", "w", "x", "y", "z">>

\* the character c in lower case
lowerChar(c) ==
    IF \E i \in 1..26 : UpperCase[i] = c
    THEN LowerCase[CHOOSE i \in 1..26 : UpperCase[i] = c]
    ELSE c

\* s.toLowerCase()
RECURSIVE toLowerCase(_)
toLowerCase(s) ==
    IF Len(s) = 0 THEN ""
    ELSE lowerChar(SubSeq(s, 1, 1)) \o toLowerCase(SubSeq(s, 2, Len(s)))

\* s.includes(sub)
stringIncludes(s, sub) ==
    \E i \in 1..(Len(s) - Len(sub) + 1) : SubSeq(s, i, i + Len(sub) - 1) = sub

\* s.trim(), the white space of the model being the space
RECURSIVE trim(_)
trim(s) ==
    IF Len(s) = 0 THEN ""
    ELSE IF SubSeq(s, 1, 1) = " " THEN trim(SubSeq(s, 2, Len(s)))
    ELSE IF SubSeq(s, Len(s), Len(s)) = " " THEN trim(SubSeq(s, 1, Len(s) - 1))
    ELSE s

(***************************************************************************)
(* app/page.tsx: messages ("'" stands for the apostrophe U+2019).          *)
(***************************************************************************)
ChoosePhotoMessage == "Please choose a photo to analyze."
PasteLinkMessage   == "Please paste an image link to analyze."
NoVehicleMessage   ==
    "We couldn't detect a vehicle in that image. Please upload a photo that clearly shows a vehicle."
FetchLinkMessage   ==
    "We couldn't fetch that link. Make sure it's a direct image URL (JPG/PNG/WebP) and publicly accessible, then try again."
ServiceMessage     ==
    "Our service hit a hiccup while processing the image. Please try again in a moment."
GenericMessage     ==
    "We couldn't process that image or link. Try a different photo or a direct image URL."

friendlyApiError(raw, status) ==
    LET lower == toLowerCase(raw)
    IN  IF stringIncludes(lower, "downloading") \/ stringIncludes(lower, "fetch")
           \/ stringIncludes(lower, "http")
        THEN FetchLinkMessage
        ELSE IF status /= 0 /\ status >= 500 THEN ServiceMessage
        ELSE GenericMessage

narrativeIndicatesNoVehicle(text) ==
    IF text = "" THEN FALSE
    ELSE LET t == toLowerCase(text)
         IN  \/ stringIncludes(t, "no vehicle present")
             \/ stringIncludes(t, "no vehicle image")
             \/ stringIncludes(t, "no vehicle detected")
             \/ stringIncludes(t, "no vehicle found")
             \/ stringIncludes(t, "not a vehicle")
             \/ stringIncludes(t, "image does not contain a vehicle")

(***************************************************************************)
(* app/page.tsx: what the user and the two routes can supply.              *)
(***************************************************************************)
Files      == {"a.jpg", "b.jpg"}
Urls       == {" ", "https://host/a.jpg", "https://host/b.jpg "}
SampleUrls == {"https://host/a.jpg"}

\* the answers of /api/detect: the fetch fails, a status that is not OK (the
\* text may fail to be read), a body that is not JSON, a JSON body
DetectJsons ==
    { [t |-> "object", is_vehicle |-> v, issues |-> i, yolo_boxes |-> Undef] :
        v \in {Bool(TRUE), Bool(FALSE), Undef},
        i \in {Undef, Arr(<<>>), Arr(<<Str("blurry")>>)} }
    \cup { [t |-> "object", is_vehicle |-> Bool(TRUE), issues |-> Arr(<<>>), yolo_boxes |-> y] :
             y \in {Arr(<<>>), Arr(<<Null>>),
                    Arr(<<[t |-> "object", bbox_rel |-> ValidBox, confidence |-> Undef]>>)} }
    \cup { NoDetectJson }

FailedFetches ==
    { [kind |-> "rejected", status |-> 0, text |-> ""],
      [kind |-> "notOk", status |-> 400, text |-> "Invalid imageUrl"],
      [kind |-> "notOk", status |-> 400, text |-> "Failed to FETCH the image"],
      [kind |-> "notOk", status |-> 500, text |-> "detect error"],
      [kind |-> "textRejected", status |-> 500, text |-> ""],
      [kind |-> "badJson", status |-> 200, text |-> ""] }
OkFetch == [kind |-> "ok", status |-> 200, text |-> ""]

\* the JSON bodies of /api/analyze: damage_items by its length (-1: not an
\* array), vehicle by its confidence in hundredths (-1: missing)
AnalysisOf(image) ==
    { [t |-> "object", image |-> image, narrative |-> n, damage_items |-> k, vehicle |-> c] :
        n \in {"Dent on the rear bumper.", "No Vehicle detected in the image."},
        k \in {0, 1},
        c \in {10, 90} }
    \cup { [t |-> "object", image |-> image, narrative |-> "", damage_items |-> -1,
             vehicle |-> c] : c \in {-1, 90} }
    \cup { NoAnalysis }

(***************************************************************************)
(* app/page.tsx: the handlers of the inputs.                               *)
(***************************************************************************)
cleared(p) == [p EXCEPT !.result = NoAnalysis, !.error = "", !.validationIssues = Null]

switchMode ==
    /\ \E next \in {"upload", "url"} :
          page' = [cleared(page) EXCEPT
                      !.mode = next,
                      !.imageUrl = IF next = "upload" THEN "" ELSE @,
                      !.file = IF next = "upload" THEN @ ELSE NoFile]
    /\ UNCHANGED <<env, pc, form, yoloSeeds, completion, payload, response, prior,
                   detectVars, submit, calls>>

\* the file input is rendered in the upload mode
onFile ==
    /\ page.mode = "upload"
    /\ \E f \in Files \cup {NoFile} : page' = [cleared(page) EXCEPT !.file = f]
    /\ UNCHANGED <<env, pc, form, yoloSeeds, completion, payload, response, prior,
                   detectVars, submit, calls>>

\* the url input is rendered in the url mode
onUrlChange ==
    /\ page.mode = "url"
    /\ \E val \in Urls \cup {""} : page' = [cleared(page) EXCEPT !.imageUrl = val]
    /\ UNCHANGED <<env, pc, form, yoloSeeds, completion, payload, response, prior,
                   detectVars, submit, calls>>

selectSample ==
    /\ \E url \in SampleUrls :
          page' = [cleared(page) EXCEPT !.mode = "url", !.imageUrl = url]
    /\ UNCHANGED <<env, pc, form, yoloSeeds, completion, payload, response, prior,
                   detectVars, submit, calls>>

(***************************************************************************)
(* app/page.tsx: handleSubmit, one action per stretch between awaits.      *)
(***************************************************************************)
\* the image a submit sends: the file, or the trimmed link
imageOf(s) == IF s.mode = "upload" THEN s.file ELSE trim(s.imageUrl)

\* variant: finally leaves loading as it is
finally_keepLoading(p) == p

\* finally { setLoading(false) }
finally(p) == [p EXCEPT !.loading = FALSE]

\* catch { setError(...) }
catch(p) == [p EXCEPT !.error = GenericMessage]

\* the submit button: disabled={loading || (mode === "upload" ? !file : !imageUrl)}
submitEnabled(p) ==
    ~p.loading /\ (IF p.mode = "upload" THEN p.file /= NoFile ELSE p.imageUrl /= "")

\* setLoading(true); setError(""); setValidationIssues(null); setResult(null)
started(p) == [cleared(p) EXCEPT !.loading = TRUE]

\* the missing input of the closure s, "" if there is one
missingInput(s) ==
    IF s.mode = "upload"
    THEN (IF s.file = NoFile THEN ChoosePhotoMessage ELSE "")
    ELSE (IF trim(s.imageUrl) = "" THEN PasteLinkMessage ELSE "")

handleSubmit_start ==
    /\ submitEnabled(page)
    /\ LET s == [NoSubmit EXCEPT !.mode = page.mode, !.file = page.file,
                                 !.imageUrl = page.imageUrl]
       IN  IF missingInput(s) /= ""
           THEN /\ page' = finally([started(page) EXCEPT !.error = missingInput(s)])
                /\ submit' = [s EXCEPT !.pc = "finished"]
                /\ calls' = <<>>
           ELSE IF s.mode = "upload"
           THEN /\ page' = started(page)
                /\ submit' = [s EXCEPT !.pc = "compress"]
                /\ calls' = <<>>
           ELSE /\ page' = started(page)
                /\ submit' = [s EXCEPT !.pc = "detect"]
                /\ calls' = <<"/api/detect">>
    /\ UNCHANGED <<env, pc, form, yoloSeeds, completion, payload, response, prior, detectVars>>

\* await compressImage(file); await fileToDataUrl(compressed): the image is
\* read and encoded, or one of the two rejects
handleSubmit_compressed ==
    /\ submit.pc = "compress"
    /\ \E ok \in BOOLEAN :
          IF ok
          THEN /\ submit' = [submit EXCEPT !.pc = "detect"]
               /\ calls' = Append(calls, "/api/detect")
               /\ page' = page
          ELSE /\ submit' = [submit EXCEPT !.pc = "finished"]
               /\ calls' = calls
               /\ page' = finally(catch(page))
    /\ UNCHANGED <<env, pc, form, yoloSeeds, completion, payload, response, prior, detectVars>>

\* the seeds of the analyze request cannot be built: an element of
\* yolo_boxes is null, so b.bbox_rel throws
seedsThrow(detectJson) ==
    /\ detectJson.t = "object"
    /\ detectJson.yolo_boxes.t = "array"
    /\ \E i \in 1..Len(detectJson.yolo_boxes.a) :
          detectJson.yolo_boxes.a[i].t \in {"null", "undefined"}

\* variant: the vehicle gate of detect is not consulted
afterDetect_noGate(dr, detectJson) ==
    IF dr.kind \in {"rejected", "textRejected", "badJson"} THEN [to |-> "catch", error |-> ""]
    ELSE IF dr.kind = "notOk"
    THEN [to |-> "return", error |-> friendlyApiError(dr.text, dr.status)]
    ELSE IF seedsThrow(detectJson) THEN [to |-> "catch", error |-> ""]
    ELSE [to |-> "analyze", error |-> ""]

\* what handleSubmit does with the answer dr of /api/detect and its body
afterDetect(dr, detectJson) ==
    IF dr.kind \in {"rejected", "textRejected", "badJson"} THEN [to |-> "catch", error |-> ""]
    ELSE IF dr.kind = "notOk"
    THEN [to |-> "return", error |-> friendlyApiError(dr.text, dr.status)]
    ELSE IF detectJson.t = "object" /\ detectJson.is_vehicle = Bool(FALSE)
    THEN [to |-> "return", error |-> NoVehicleMessage]
    ELSE IF seedsThrow(detectJson) THEN [to |-> "catch", error |-> ""]
    ELSE [to |-> "analyze", error |-> ""]

Detected(dr, detectJson) ==
    LET step == afterDetect(dr, detectJson)
    IN  /\ submit' = [submit EXCEPT !.dr = dr, !.detectJson = detectJson,
                         !.pc = IF step.to = "analyze" THEN "analyze" ELSE "finished"]
        /\ calls' = IF step.to = "analyze" THEN Append(calls, "/api/analyze") ELSE calls
        /\ page' = IF step.to = "analyze" THEN page
                   ELSE IF step.to = "catch" THEN finally(catch(page))
                   ELSE finally([page EXCEPT !.error = step.error])

\* await fetch("/api/detect"), await dr.text() or await dr.json()
handleSubmit_detected ==
    /\ submit.pc = "detect"
    /\ \/ \E dr \in FailedFetches : Detected(dr, NoDetectJson)
       \/ \E detectJson \in DetectJsons : Detected(OkFetch, detectJson)
    /\ UNCHANGED <<env, pc, form, yoloSeeds, completion, payload, response, prior, detectVars>>

noItems(j) == j.t /= "object" \/ j.damage_items <= 0

\* the two guards on the body j of /api/analyze
noVehicleGuard(j) ==
    \/ narrativeIndicatesNoVehicle(j.narrative)
    \/ (noItems(j) /\ narrativeIndicatesNoVehicle(j.narrative))
    \/ (noItems(j) /\ (IF j.t = "object" /\ j.vehicle >= 0 THEN j.vehicle ELSE 0) < 15)

hasIssues(detectJson) ==
    detectJson.t = "object" /\ detectJson.issues.t = "array" /\ Len(detectJson.issues.a) /= 0

\* variant: the hints of detect are surfaced before the guards
afterAnalyze_issuesFirst(p, ar, j, detectJson) ==
    LET q == IF hasIssues(detectJson) /\ ar.kind = "ok"
             THEN [p EXCEPT !.validationIssues = detectJson.issues] ELSE p
    IN  IF ar.kind \in {"rejected", "textRejected", "badJson"} THEN finally(catch(q))
        ELSE IF ar.kind = "notOk"
        THEN finally([q EXCEPT !.error = friendlyApiError(ar.text, ar.status)])
        ELSE IF noVehicleGuard(j)
        THEN finally([q EXCEPT !.result = NoAnalysis, !.error = NoVehicleMessage])
        ELSE finally([q EXCEPT !.result = j])

\* the page after the answer ar of /api/analyze with the body j
afterAnalyze(p, ar, j, detectJson) ==
    IF ar.kind \in {"rejected", "textRejected", "badJson"} THEN finally(catch(p))
    ELSE IF ar.kind = "notOk"
    THEN finally([p EXCEPT !.error = friendlyApiError(ar.text, ar.status)])
    ELSE IF noVehicleGuard(j)
    THEN finally([p EXCEPT !.result = NoAnalysis, !.error = NoVehicleMessage])
    ELSE finally([p EXCEPT !.result = j,
                           !.validationIssues =
                               IF hasIssues(detectJson) THEN detectJson.issues ELSE @])

\* await fetch("/api/analyze"), await ar.text() or await ar.json()
handleSubmit_analyzed ==
    /\ submit.pc = "analyze"
    /\ \/ \E ar \in FailedFetches :
             /\ page' = afterAnalyze(page, ar, NoAnalysis, submit.detectJson)
             /\ submit' = [submit EXCEPT !.pc = "finished", !.ar = ar]
       \/ \E j \in AnalysisOf(imageOf(submit)) :
             /\ page' = afterAnalyze(page, OkFetch, j, submit.detectJson)
             /\ submit' = [submit EXCEPT !.pc = "finished", !.ar = OkFetch]
    /\ calls' = calls
    /\ UNCHANGED <<env, pc, form, yoloSeeds, completion, payload, response, prior, detectVars>>

NextPage ==
    \/ switchMode \/ onFile \/ onUrlChange \/ selectSample
    \/ handleSubmit_start \/ handleSubmit_compressed
    \/ handleSubmit_detected \/ handleSubmit_analyzed

SpecPage == InitWide /\ [][NextPage]_vars

\* each await of a started submit settles
SpecPageFair ==
    /\ SpecPage
    /\ WF_vars(handleSubmit_compressed)
    /\ WF_vars(handleSubmit_detected)
    /\ WF_vars(handleSubmit_analyzed)

(***************************************************************************)
(* Properties.                                                             *)
(***************************************************************************)
\* the handler has answered the current request
Answered == pc = "done" /\ completion.json
\* ... with the payload
Answered200 == pc = "done" /\ response.status = 200

\* the candidate observations of the current request and whether the
\* returned records are their normalizations (not the seed fallback)
itemsIn == itemsInOf(completion)
Normalized == Answered200 /\ Len(itemsIn) /= 0
records == payload.damage_items

Integer15 == {100, 200, 300, 400, 500}

\* C1: for an input sequence of N candidate observations the handler's
\* damage_items has exactly N records, the i-th derived from the i-th input,
\* and normalization never throws (the request is answered with the payload).
C1_SameCountSameOrder ==
    Answered =>
        /\ response.status = 200
        /\ Len(records) = Len(itemsIn)
        /\ \A i \in 1..Len(itemsIn) : records[i] = normalizeItem(itemsIn[i])

\* C2: in every normalized record zone, part and damage_type are members of
\* their enumerations; anything else has been replaced with "unknown".
C2_EnumsValid ==
    Normalized =>
        \A i \in 1..Len(records) :
            /\ records[i].zone \in Zone
            /\ records[i].part \in Part
            /\ records[i].damage_type \in DamageType

\* C3: in every normalized record severity is an integer in 1..5: an integer
\* input in [1,5] is kept, every other input yields 2.
C3_SeverityInteger ==
    Normalized =>
        \A i \in 1..Len(records) :
            LET raw == IF isRecord(itemsIn[i]) THEN itemsIn[i].severity ELSE Undef
            IN  /\ records[i].severity \in Integer15
                /\ records[i].severity =
                      (IF raw.t = "number" /\ raw.n \in Integer15 THEN raw.n ELSE 200)

\* C4: a normalized record carries at most one of bbox_rel and polygon_rel,
\* and only the polygon when the candidate supplied both in valid form.
C4_OneGeometry ==
    Normalized =>
        \A i \in 1..Len(records) :
            /\ ~(records[i].bbox_rel /= NoGeom /\ records[i].polygon_rel /= NoGeom)
            /\ (isRecord(itemsIn[i]) /\ isBBoxRel(itemsIn[i].bbox_rel)
                  /\ isPolygonRel(itemsIn[i].polygon_rel))
               => (records[i].bbox_rel = NoGeom /\ records[i].polygon_rel /= NoGeom)

\* C5: for the estimate computed from normalized records, cost_low <= cost_high
\* and both are non-negative (they are integers by construction of MathRound).
C5_CostBand ==
    Normalized =>
        /\ payload.estimate.cost_low <= payload.estimate.cost_high
        /\ payload.estimate.cost_low >= 0
        /\ payload.estimate.cost_high >= 0

\* C6: in every normalized record est_labor_hours is non-negative.
C6_HoursNonNegative ==
    Normalized => \A i \in 1..Len(records) : records[i].est_labor_hours >= 0

(***************************************************************************)
(* The decision inputs, stated from the returned records and estimate.     *)
(***************************************************************************)
severities == {records[i].severity : i \in 1..Len(records)} \cup {0}
maxSevOfRecords == CHOOSE m \in severities : \A x \in severities : x <= m
costHigh == payload.estimate.cost_high

\* 500 * (1 + 0.2 * (severity - 1)), severity in hundredths
weight500(sev) == 500 + (sev - 100)

RECURSIVE weightedConfSum(_)
weightedConfSum(xs) ==
    IF xs = <<>> THEN 0
    ELSE Head(xs).confidence * weight500(Head(xs).severity) + weightedConfSum(Tail(xs))

RECURSIVE weightSum(_)
weightSum(xs) ==
    IF xs = <<>> THEN 0 ELSE weight500(Head(xs).severity) + weightSum(Tail(xs))

\* aggregate confidence >= thr (hundredths); 0.5 for no records
aggConfAtLeast(thr) ==
    IF records = <<>> THEN 50 >= thr
    ELSE weightedConfSum(records) >= thr * weightSum(records)

\* the aggregate confidence as a percentage rounded to the nearest integer
roundedPercent ==
    LET num == IF records = <<>> THEN 50 ELSE weightedConfSum(records)
        den == IF records = <<>> THEN 1 ELSE weightSum(records)
    IN  CHOOSE p \in 0..100 : (2 * p - 1) * den <= 2 * num /\ 2 * num < (2 * p + 1) * den

AutoCondition ==
    /\ maxSevOfRecords <= AUTO_MAX_SEVERITY
    /\ costHigh <= AUTO_MAX_COST
    /\ aggConfAtLeast(AUTO_MIN_CONF)

SeverityTriggers == maxSevOfRecords >= SPEC_MIN_SEVERITY
CostTriggers == costHigh >= SPEC_MIN_COST
SpecialistCondition == SeverityTriggers \/ CostTriggers

ThresholdsOverlap ==
    AUTO_MAX_SEVERITY >= SPEC_MIN_SEVERITY \/ AUTO_MAX_COST >= SPEC_MIN_COST

label == payload.decision.label
reasons == payload.decision.reasons
ReasonSet == {reasons[i] : i \in 1..Len(reasons)}

C11_EmptyFindings ==
    (Answered200 /\ records = <<>>) =>
        /\ costHigh = 0
        /\ payload.estimate.cost_low = 0
        /\ (AUTO_MIN_CONF = 75 /\ SPEC_MIN_SEVERITY = 400 /\ SPEC_MIN_COST = 5000)
              => /\ label = "INVESTIGATE"
                 /\ reasons = << <<"agg_conf %", 50>>,
                                 <<"max_severity", 0>>,
                                 <<"cost_high $", 0>> >>
        /\ (AUTO_MIN_CONF <= 50) => label = "AUTO-APPROVE"

\* no findings under the default configuration
C11_Witness ==
    /\ Answered200
    /\ records = <<>>
    /\ env = DefaultEnv
    /\ label = "INVESTIGATE"

\* no findings where the confidence floor is 0.5
C11_WitnessLowFloor ==
    /\ Answered200
    /\ records = <<>>
    /\ AUTO_MIN_CONF = 50
    /\ label = "AUTO-APPROVE"

(***************************************************************************)
(* The estimate's components, computed from the returned records.          *)
(***************************************************************************)
paintCost == estimateLoop(records, Len(records)).paint
paintableZones ==
    {records[i].zone : i \in {j \in 1..Len(records) : records[j].needs_paint}}

\* C12: the paint cost is the paint unit cost times the number of distinct
\* zone values among the records whose needs_paint is true, whatever the
\* zone's value.
C12_PaintPerZone ==
    Answered200 => paintCost = PAINT * Cardinality(paintableZones)

partsTotal == estimateLoop(records, Len(records)).parts

\* what one record adds to the parts total according to C13
partsShare(d) ==
    IF d.severity >= 400 \/ d.likely_parts /= <<>>
    THEN 250 * (IF Len(d.likely_parts) > 1 THEN Len(d.likely_parts) ELSE 1)
    ELSE 0

RECURSIVE partsSum(_)
partsSum(xs) == IF xs = <<>> THEN 0 ELSE partsShare(Head(xs)) + partsSum(Tail(xs))

\* C13: the parts total is the sum, over the records with severity >= 4 or
\* non-empty likely_parts, of 250 * max(1, number of likely_parts); a record
\* with severity < 4 and no likely_parts adds nothing.
C13_PartsTotal ==
    Answered200 => partsTotal = partsSum(records)

\* a record charged for its severity alone, next to one charged for two parts
C13_Witness ==
    /\ Answered200
    /\ \E i, j \in 1..Len(records) :
          /\ records[i].severity >= 400 /\ records[i].likely_parts = <<>>
          /\ records[j].severity < 400 /\ Len(records[j].likely_parts) = 2
    /\ partsTotal = 750

\* sum of est_labor_hours * labor rate, in cents
RECURSIVE laborSum(_)
laborSum(xs) ==
    IF xs = <<>> THEN 0 ELSE Head(xs).est_labor_hours * LABOR + laborSum(Tail(xs))

subtotalCents == laborSum(records) + 100 * (paintCost + partsTotal)
variancePct == IF \E i \in 1..Len(records) : records[i].severity >= 400 THEN 25 ELSE 15

\* k is the integer nearest to p / q (q > 0), the upper one at a tie
isNearest(k, p, q) == (2 * k - 1) * q <= 2 * p /\ 2 * p < (2 * k + 1) * q

costHighRaised(i) == estimateFromItems([records EXCEPT ![i].severity = 400]).cost_high

\* C15: for every returned record sequence and every record in it with
\* severity 3, changing only that record's severity to 4 gives a cost_high
\* that is not smaller than before.
C15_SeverityMonotone ==
    Answered200 =>
        \A i \in 1..Len(records) :
            records[i].severity = 300 => costHighRaised(i) >= costHigh

\* the i-th candidate's field f as the model answered it (undefined for a
\* candidate that is not an object)
rawConfidence(i) == IF isRecord(itemsIn[i]) THEN itemsIn[i].confidence ELSE Undef
rawBBox(i) == IF isRecord(itemsIn[i]) THEN itemsIn[i].bbox_rel ELSE Undef
rawPolygon(i) == IF isRecord(itemsIn[i]) THEN itemsIn[i].polygon_rel ELSE Undef

\* C16: in every normalized record confidence is in [0,1]: a non-numeric or
\* missing input gives 0.5, a number below 0 gives 0, above 1 gives 1, and a
\* number inside [0,1] is kept.
C16_ConfidenceClamped ==
    Normalized =>
        \A i \in 1..Len(records) :
            LET raw == rawConfidence(i)
                c   == records[i].confidence
            IN  /\ c >= 0 /\ c <= 100
                /\ raw.t /= "number" => c = 50
                /\ (raw.t = "number" /\ raw.n < 0) => c = 0
                /\ (raw.t = "number" /\ raw.n > 100) => c = 100
                /\ (raw.t = "number" /\ raw.n >= 0 /\ raw.n <= 100) => c = raw.n

\* a confidence of 1.5 returned as 1
C16_Witness ==
    /\ Normalized
    /\ rawConfidence(1) = Num(150)
    /\ records[1].confidence = 100

\* v is an array of exactly 4 numbers in [0,1]
unitBox(v) ==
    /\ v.t = "array"
    /\ Len(v.a) = 4
    /\ \A k \in 1..4 : v.a[k].t = "number" /\ v.a[k].n \in 0..100

\* v is an array of 3 to 12 points, each an array of exactly 2 numbers in [0,1]
unitPolygon(v) ==
    /\ v.t = "array"
    /\ Len(v.a) \in 3..12
    /\ \A k \in 1..Len(v.a) :
          /\ v.a[k].t = "array"
          /\ Len(v.a[k].a) = 2
          /\ \A m \in 1..2 : v.a[k].a[m].t = "number" /\ v.a[k].a[m].n \in 0..100

\* the candidate and the record without their geometry
withoutGeometryIn(i) ==
    IF isRecord(itemsIn[i])
    THEN [itemsIn[i] EXCEPT !.bbox_rel = Undef, !.polygon_rel = Undef]
    ELSE itemsIn[i]
withoutGeometry(i) == [records[i] EXCEPT !.bbox_rel = NoGeom, !.polygon_rel = NoGeom]

StructureViolated ==
    /\ Answered
    /\ \/ ~isRecord(completion)
       \/ completion.damage_items.t \notin {"undefined", "array"}

\* C18: when the parsed answer has no sequence where one is required
\* (damage_items present but not an array, or the answer not an object) the
\* handler answers with an error and not as for an empty list of observations.
C18_StructureReported ==
    StructureViolated => response.status \notin {0, 200}

(***************************************************************************)
(* The handler's responses.                                                *)
(***************************************************************************)
ResponseKinds ==
    { [status |-> 200, error_code |-> ""],
      [status |-> 400, error_code |-> "E_NO_IMAGE"],
      [status |-> 400, error_code |-> "E_BAD_URL"],
      [status |-> 502, error_code |-> "E_MODEL_JSON"],
      [status |-> 500, error_code |-> "E_SERVER"] }

HttpUrls == {"https://host/car.jpg", "http://host/car.jpg"}
Thrown == response' = [status |-> 500, error_code |-> "E_SERVER"]

\* one step of the handler, as C19 describes it
C19_Step ==
    \* one response per request: it is set when the handler finishes, is one of
    \* the five kinds, and is not replaced
    /\ (pc' = "done") <=> (response' /= NoResponse)
    /\ response' /= NoResponse => (response = NoResponse /\ response' \in ResponseKinds)
    \* input validation, with the form data in hand and no provider call made
    /\ response'.status = 400 => (pc = "formData" /\ completion' = NoCompletion)
    /\ (pc = "formData" /\ ~Thrown) =>
          /\ (~form.file /\ form.imageUrl = "")
                => response' = [status |-> 400, error_code |-> "E_NO_IMAGE"]
          /\ (~form.file /\ form.imageUrl /= "" /\ form.imageUrl \notin HttpUrls)
                => response' = [status |-> 400, error_code |-> "E_BAD_URL"]
          /\ (form.file \/ form.imageUrl \in HttpUrls)
                => (response' = NoResponse /\ pc' = "awaitModel")
    \* the provider's answer
    /\ (pc = "awaitModel" /\ ~Thrown) =>
          /\ completion' /= NoCompletion
          /\ ~completion'.json
                => response' = [status |-> 502, error_code |-> "E_MODEL_JSON"]
          /\ completion'.json => response'.status = 200
    /\ response'.status = 502 => (pc = "awaitModel" /\ ~completion'.json)

C19_WitnessNoImage == pc = "done" /\ response = [status |-> 400, error_code |-> "E_NO_IMAGE"]
C19_WitnessModelJson == pc = "done" /\ response = [status |-> 502, error_code |-> "E_MODEL_JSON"]
C19_WitnessServer == pc = "done" /\ response = [status |-> 500, error_code |-> "E_SERVER"]

(***************************************************************************)
(* The labor-hours table of C20, in hundredths.                            *)
(***************************************************************************)
baseTable(part) ==
    CASE part = "bumper"        -> 120
      [] part = "door"          -> 150
      [] part = "fender"        -> 120
      [] part = "hood"          -> 140
      [] part = "quarter-panel" -> 200
      [] part \in {"headlight", "taillight"} -> 60
      [] part = "grille"        -> 80
      [] part = "mirror"        -> 50
      [] part = "windshield"    -> 120
      [] part = "wheel"         -> 70
      [] part = "trunk"         -> 140
      [] OTHER                  -> 100

multTable(sev) ==
    CASE sev = 100 -> 50
      [] sev = 200 -> 80
      [] sev = 300 -> 100
      [] sev = 400 -> 140
      [] sev = 500 -> 180

rawHours(i) == IF isRecord(itemsIn[i]) THEN itemsIn[i].est_labor_hours ELSE Undef
rawSeverity(i) == IF isRecord(itemsIn[i]) THEN itemsIn[i].severity ELSE Undef
rawPart(i) == IF isRecord(itemsIn[i]) THEN itemsIn[i].part ELSE Undef

\* the defaulted severity and part: an integer 1..5 or else 2, a string or
\* else "unknown"
defaultedSeverity(i) ==
    IF rawSeverity(i).t = "number" /\ rawSeverity(i).n \in Integer15
    THEN rawSeverity(i).n ELSE 200
defaultedPart(i) == IF rawPart(i).t = "string" THEN rawPart(i).s ELSE "unknown"

\* C20: when the candidate's est_labor_hours is not a number the normalized
\* est_labor_hours is base(part) * mult(severity) rounded to 2 decimals, from
\* the defaulted part and severity, with the tables above; a numeric
\* est_labor_hours is kept unchanged.
C20_HoursFallback ==
    Normalized =>
        \A i \in 1..Len(records) :
            /\ rawHours(i).t /= "number" =>
                  isNearest(records[i].est_labor_hours,
                            baseTable(defaultedPart(i)) * multTable(defaultedSeverity(i)),
                            100)
            /\ rawHours(i).t = "number" => records[i].est_labor_hours = rawHours(i).n

(***************************************************************************)
(* The paint-need rule of C21, on the returned record's own fields.        *)
(***************************************************************************)
rawPaint(i) == IF isRecord(itemsIn[i]) THEN itemsIn[i].needs_paint ELSE Undef
GlassParts == {"windshield", "headlight", "taillight", "mirror"}
\* the damage types of the inputs that contain "scratch" or "paint"
PaintWords == {"scratch", "deep-scratch", "paint-chips", "repaint"}

\* C21: when the candidate's needs_paint is not a boolean the normalized
\* needs_paint is false for a windshield, headlight, taillight or mirror,
\* otherwise true if damage_type contains "scratch" or "paint", otherwise
\* true iff severity >= 2; a boolean needs_paint is kept unchanged.
C21_PaintHeuristic ==
    Normalized =>
        \A i \in 1..Len(records) :
            /\ rawPaint(i).t /= "boolean" =>
                  records[i].needs_paint =
                     (IF records[i].part \in GlassParts THEN FALSE
                      ELSE IF records[i].damage_type \in PaintWords THEN TRUE
                      ELSE records[i].severity >= 200)
            /\ rawPaint(i) = Bool(TRUE) => records[i].needs_paint
            /\ rawPaint(i) = Bool(FALSE) => ~records[i].needs_paint

\* a badly scratched mirror that needs no paint
C21_Witness ==
    /\ Normalized
    /\ rawPaint(1).t /= "boolean"
    /\ records[1].part = "mirror"
    /\ records[1].damage_type = "deep-scratch"
    /\ records[1].severity = 500
    /\ ~records[1].needs_paint

\* a severity-1 dent that needs no paint, and a severity-1 paint chip that does
C21_WitnessMinor ==
    /\ Normalized
    /\ rawPaint(1).t /= "boolean"
    /\ records[1].part = "door"
    /\ records[1].severity = 100
    /\ records[1].needs_paint <=> records[1].damage_type = "paint-chips"

(***************************************************************************)
(* The two aggregators on the returned records (rationals num / den).      *)
(***************************************************************************)
serverAgg == aggregateConfidence(records)
clientAgg == aggregateDecisionConfidence(records)

serverAggDouble == aggregateConfidenceDouble(records)

\* C23: for a non-empty sequence of returned records the aggregate confidence
\* lies between the smallest and the largest confidence of the records
\* (inclusive); for the empty sequence it is exactly 0.5.
C23_AggregateBounded ==
    Answered200 =>
        /\ records /= <<>> =>
              /\ \E i \in 1..Len(records) :
                     fcmp(doubleOf(records[i].confidence), serverAggDouble) <= 0
              /\ \E i \in 1..Len(records) :
                     fcmp(serverAggDouble, doubleOf(records[i].confidence)) <= 0
        /\ records = <<>> => serverAggDouble = Double05

\* the request being answered has the input of the noted earlier request
SameInputAsPrior ==
    /\ Answered200
    /\ prior.set
    /\ prior.completion = completion
    /\ prior.yoloSeeds = yoloSeeds

summary == payload.damage_summary

\* "{zone} {part} - {damage_type}, sev {severity}" of the records, joined
\* with "; " up to record n
RECURSIVE describedUpTo(_)
describedUpTo(n) ==
    IF n = 0 THEN ""
    ELSE (IF n = 1 THEN "" ELSE describedUpTo(n - 1) \o "; ")
         \o records[n].zone \o " " \o records[n].part \o " - "
         \o records[n].damage_type \o ", sev " \o numberToString(records[n].severity)

\* s is the first 400 characters of text
First400(s, text) ==
    /\ Len(s) = (IF Len(text) < 400 THEN Len(text) ELSE 400)
    /\ s = SubSeq(text, 1, Len(s))

\* C25: damage_summary has at most 400 characters; with at least one record
\* it is the first 400 characters of the records' descriptions joined with
\* "; " in record order, and only with no record it is the first 400
\* characters of the narrative.
C25_SummaryTruncated ==
    Answered200 =>
        /\ Len(summary) <= 400
        /\ records /= <<>> => First400(summary, describedUpTo(Len(records)))
        /\ records = <<>> => First400(summary, narrativeOf(completion))

\* ten records whose descriptions together exceed 400 characters
C25_Witness ==
    /\ Answered200
    /\ Len(records) = 10
    /\ Len(describedUpTo(Len(records))) > 400
    /\ Len(summary) = 400
    /\ narrativeOf(completion) /= ""

\* no record and a narrative of 450 characters
C25_WitnessNarrative ==
    /\ Answered200
    /\ records = <<>>
    /\ Len(narrativeOf(completion)) = 450
    /\ Len(summary) = 400

(***************************************************************************)
(* The boxes of detectWithRoboflow.                                        *)
(***************************************************************************)
\* v is a number in [0,1]
inUnit(v) == v.k = "fin" /\ 0 <= v.p /\ v.p <= v.q

detectReturned == roboflow.pc = "returned"

\* C27: every box returned by detectWithRoboflow has its four bbox_rel
\* components in [0,1], whatever the prediction's shape, an image width or
\* height of 0 and x_max < x_min included.
C27_BoxesInUnit ==
    detectReturned =>
        \A i \in 1..Len(boxes) : \A j \in 1..4 : inUnit(boxes[i].bbox_rel[j])

(***************************************************************************)
(* The page.                                                               *)
(***************************************************************************)
\* the input the page shows as selected
selectedImage == IF page.mode = "upload" THEN page.file ELSE trim(page.imageUrl)

\* C28: a result shown by the page was produced from the currently selected
\* input; the answer of a submit started before the file, the link or the
\* mode was changed is not stored as the result for the new input.
C28_ResultOfSelectedInput ==
    page.result /= NoAnalysis => page.result.image = selectedImage

analyzeCalled == \E i \in 1..Len(calls) : calls[i] = "/api/analyze"

\* the answer of /api/detect held by the running or finished submit is a
\* status that is not OK, or says is_vehicle === false
detectRefused ==
    \/ submit.dr.kind \in {"notOk", "textRejected"}
    \/ /\ submit.dr.kind = "ok"
       /\ submit.detectJson.t = "object"
       /\ submit.detectJson.is_vehicle = Bool(FALSE)

\* a step that ends a submit on a refusing answer of detect leaves an error
\* message and no result
C26_Step ==
    (submit.pc = "detect" /\ submit'.pc = "finished" /\ detectRefused')
    => (page'.error /= "" /\ page'.result = NoAnalysis /\ calls' = <<"/api/detect">>)

\* analyze has been called only after detect, on an OK answer that does not
\* say is_vehicle === false
C26_Order ==
    /\ Len(calls) <= 2
    /\ analyzeCalled =>
          /\ calls = <<"/api/detect", "/api/analyze">>
          /\ submit.dr.kind = "ok"
          /\ ~detectRefused
    /\ detectRefused => ~analyzeCalled /\ page.result = NoAnalysis

\* C26: in a submit /api/detect is called before /api/analyze, and
\* /api/analyze is not called when detect answered with a status that is not
\* OK or with is_vehicle === false; the submit then ends with an error
\* message set and no result set.
C26_DetectBeforeAnalyze == []C26_Order /\ [][C26_Step]_vars

\* a submit ended by is_vehicle === false, the message showing
C26_Witness ==
    /\ submit.pc = "finished"
    /\ submit.dr.kind = "ok"
    /\ submit.detectJson.is_vehicle = Bool(FALSE)
    /\ page.error = NoVehicleMessage
    /\ calls = <<"/api/detect">>

\* a submit ended by a status of detect that is not OK
C26_WitnessNotOk ==
    /\ submit.pc = "finished"
    /\ submit.dr.kind = "notOk"
    /\ page.error = FetchLinkMessage
    /\ calls = <<"/api/detect">>

\* analyze called after detect
C26_WitnessAnalyze ==
    /\ submit.pc = "analyze"
    /\ calls = <<"/api/detect", "/api/analyze">>

\* C29: a submit that has set loading to true sets it back to false, on
\* every path, the awaits of the submit settling.
C29_LoadingEnds == page.loading ~> ~page.loading

\* a submit in flight, waiting for /api/analyze
C29_Witness == page.loading /\ submit.pc = "analyze"

\* submits ended on each path: missing input, detect failure, no vehicle,
\* analyze failure, exception, success
C29_WitnessMissing ==
    ~page.loading /\ submit.pc = "finished" /\ page.error = PasteLinkMessage
C29_WitnessThrown ==
    ~page.loading /\ submit.pc = "finished" /\ submit.ar.kind = "rejected"
    /\ page.error = GenericMessage
C29_WitnessAnalyzeFailure ==
    ~page.loading /\ submit.pc = "finished" /\ submit.ar.kind = "notOk"
    /\ page.error = ServiceMessage
C29_WitnessSuccess ==
    ~page.loading /\ submit.pc = "finished" /\ page.result /= NoAnalysis

\* C30: after a submit has completed, a result and an error message are
\* never both set, and validation issues are set only with a result.
C30_ResultOrError ==
    submit.pc = "finished" =>
        /\ ~(page.result /= NoAnalysis /\ page.error /= "")
        /\ page.validationIssues /= Null => page.result /= NoAnalysis

\* a completed submit with a result and the issues of detect
C30_Witness ==
    /\ submit.pc = "finished"
    /\ page.result /= NoAnalysis
    /\ page.validationIssues = Arr(<<Str("blurry")>>)
    /\ page.error = ""

\* a completed submit whose detect reported issues and whose analysis was
\* refused by the no-vehicle guard
C30_WitnessGuard ==
    /\ submit.pc = "finished"
    /\ hasIssues(submit.detectJson)
    /\ submit.ar.kind = "ok"
    /\ page.error = NoVehicleMessage
    /\ page.result = NoAnalysis
    /\ page.validationIssues = Null

====
